---- MODULE Spec2Model ----
(***************************************************************************)
(* State-machine model of src/main.py (Mario vs Bowser, Pygame Zero).      *)
(*                                                                         *)
(* Units.  Health is kept in eighths of a hit point (the flame stream      *)
(* removes 7.5/60 = 1/8 HP per tick), vertical position and velocity in    *)
(* tenths of a pixel (gravity is 0.6 px/tick), horizontal position in      *)
(* pixels.                                                                 *)
(*                                                                         *)
(* Sprites.  The image files are not part of the source.  What the code    *)
(* reads from them is (a) the number of frames of each FrameSet, held in   *)
(* the variable assets, (b) the frame dimensions, taken uniform per        *)
(* character, and (c) the outcome of the mask / rectangle overlap tests,   *)
(* which depends on pixel content and is an input of every tick (the       *)
(* record c of update).  State that only selects what is drawn (stand      *)
(* animation, charge and flame overlays, debug toggles) is left out.       *)
(***************************************************************************)
EXTENDS Integers, Sequences, FiniteSets, TLC

VARIABLES game_state, mario, bowser, fireballs, assets, obs, keys_used, sheet

vars == <<game_state, mario, bowser, fireballs, assets, obs, keys_used, sheet>>

\* ------------------------------------------------------------ constants
WIDTH == 1550
HEIGHT == 840
GROUND_NUDGE_PX == 12
FLOOR_Y == HEIGHT - 50 + GROUND_NUDGE_PX
MARIO_FLOOR_OFFSET == -11
BOWSER_FLOOR_OFFSET == -11

\* tenths of a pixel
PX == 10
\* eighths of a hit point
HP == 8

MARIO_SPAWN_X == 450
BOWSER_SPAWN_X == 850
INITIAL_HEALTH == 500
MARIO_HEIGHT == 64
BOWSER_HEIGHT == 64
GRAVITY_TENTHS == 6
WALK_SPEED == 3
MARIO_JUMP_SPEED == 12
BOWSER_JUMP_SPEED == 9

mario_attack_speed == 4
special_speed == 5
special_charge_duration == 150
block_speed == 6
hit_anim_speed == 5
hitstun_linger == 10
bowser_attack_speed == 10
flameblast_speed == 4
flameblast_stream_duration == 60
flameblast_charge_duration == 90

HAMMER_DAMAGE == 20
HAMMER_DAMAGE_DOUBLE == 40
HAMMER_LINGER == 30
HAMMER_LINGER_DOUBLE == 60
PUNCH_DAMAGE == 15
PUNCH_DAMAGE_DOUBLE == 30
PUNCH_LINGER == 30
PUNCH_LINGER_DOUBLE == 60
FLAME_LINGER == 45
FIREBALL_DAMAGE == 15
FIREBALL_LINGER == 30
FIREBALL_SPEED == 5
FIREBALL_SPEED_TICKS == 4
DESPAWN_MARGIN == 50

\* 7.5 / 60.0 hit points, in eighths
FLAME_DAMAGE_EIGHTHS == 1

\* ---------------------------------------------------------------- bounds
\* Number of frames of each FrameSet as sliced from the sprite sheets.
MarioAttackFrames == 4
MarioChargeFrames == 4
MarioReleaseFrames == 2
MarioBlockFrames == 2
MarioHitFrames == 2
BowserPunchFrames == 3
BowserChargeFrames == 4
BowserReleaseFrames == 2
BowserStreamFrames == 2
BowserBlockFrames == 2
BowserHitFrames == 2
FireballFrames == 2
\* Width in pixels of a (3x scaled) fireball frame.
FireballWidth == 48
\* Horizontal walking range explored around the spawn points, in pixels.
MaxWalk == 405
\* Saturation of the observers' counters.
MaxCount == 2

NoAnchor == -1

Min(a, b) == IF a < b THEN a ELSE b
Max(a, b) == IF a > b THEN a ELSE b

\* Python's int(): truncation toward zero of a / b, b > 0.
TruncDiv(a, b) == IF a >= 0 THEN a \div b ELSE -((-a) \div b)

LoadedAssets ==
  [ attack_frames |-> MarioAttackFrames,
    special_charge_frames |-> MarioChargeFrames,
    special_release_frames |-> MarioReleaseFrames,
    mario_block_frames |-> MarioBlockFrames,
    mario_hit_frames |-> MarioHitFrames,
    punch_frames |-> BowserPunchFrames,
    flameblast_charge_frames |-> BowserChargeFrames,
    flameblast_release_frames |-> BowserReleaseFrames,
    flameblast_stream_frames |-> BowserStreamFrames,
    bowser_block_frames |-> BowserBlockFrames,
    bowser_hit_frames |-> BowserHitFrames,
    fireball_frames |-> FireballFrames ]

\* ------------------------------------------------------------ Mario.__init__
MarioInit ==
  [ x |-> MARIO_SPAWN_X,
    y |-> (FLOOR_Y + MARIO_FLOOR_OFFSET) * PX - (MARIO_HEIGHT * PX) \div 2,
    velocity_x |-> 0,
    velocity_y |-> 0,
    on_ground |-> TRUE,
    facing_right |-> TRUE,
    health |-> INITIAL_HEALTH * HP,
    is_attacking |-> FALSE,
    attack_frame_index |-> 0,
    attack_timer |-> 0,
    attack_has_hit |-> FALSE,
    attack_anchor_feet_y |-> NoAnchor,
    attack_lock_vertical |-> FALSE,
    is_special |-> FALSE,
    special_phase |-> "idle",
    special_timer |-> 0,
    special_index |-> 0,
    special_has_fired |-> FALSE,
    special_charge_timer |-> 0,
    special_charge_tail_loop |-> FALSE,
    special_charge_tail_start |-> 0,
    is_blocking |-> FALSE,
    block_index |-> 0,
    block_timer |-> 0,
    is_in_hitstun |-> FALSE,
    hitstun_timer |-> 0,
    hit_anim_timer |-> 0,
    hit_anim_index |-> 0,
    is_playing_hit |-> FALSE,
    hit_linger_timer |-> 0 ]

\* ----------------------------------------------------------- Bowser.__init__
BowserInit ==
  [ x |-> BOWSER_SPAWN_X,
    y |-> (FLOOR_Y + BOWSER_FLOOR_OFFSET) * PX - (BOWSER_HEIGHT * PX) \div 2,
    velocity_x |-> 0,
    velocity_y |-> 0,
    on_ground |-> TRUE,
    facing_right |-> FALSE,
    health |-> INITIAL_HEALTH * HP,
    is_in_hitstun |-> FALSE,
    hitstun_timer |-> 0,
    hit_anim_timer |-> 0,
    hit_anim_index |-> 0,
    is_playing_hit |-> FALSE,
    hit_linger_timer |-> 0,
    is_attacking |-> FALSE,
    attack_frame_index |-> 0,
    attack_timer |-> 0,
    attack_has_hit |-> FALSE,
    is_flameblasting |-> FALSE,
    flameblast_phase |-> "idle",
    flameblast_timer |-> 0,
    flameblast_index |-> 0,
    flameblast_stream_timer |-> 0,
    flame_lock_movement |-> FALSE,
    is_charging |-> FALSE,
    charge_start_time |-> 0,
    charge_tail_loop |-> FALSE,
    charge_tail_start |-> 0,
    flameblast_charge_timer |-> 0,
    is_blocking |-> FALSE,
    block_index |-> 0,
    block_timer |-> 0 ]

\* ------------------------------------------------------------- Mario.update
\* Gravity, position, facing and ground collision.
\* Mario's move with facing held while an attack, special or block is active.
Mario_move_frozen(m, bowser_x) ==
  LET vy1 == IF ~m.on_ground THEN m.velocity_y + GRAVITY_TENTHS ELSE m.velocity_y
      vx1 == IF m.is_in_hitstun THEN 0 ELSE m.velocity_x
      x1 == m.x + vx1
      y1 == m.y + vy1
      half_height == (MARIO_HEIGHT * PX) \div 2
      mario_floor == (FLOOR_Y + MARIO_FLOOR_OFFSET) * PX
      landed == y1 + half_height >= mario_floor
      frozen == m.is_attacking \/ m.is_special \/ m.is_blocking
  IN [m EXCEPT !.velocity_x = vx1,
               !.x = x1,
               !.facing_right = IF frozen THEN @ ELSE (bowser_x >= x1),
               !.y = IF landed THEN mario_floor - half_height ELSE y1,
               !.velocity_y = IF landed THEN 0 ELSE vy1,
               !.on_ground = IF landed THEN TRUE ELSE @]

\* Gravity, position, facing and ground collision.
Mario_move(m, bowser_x) ==
  LET vy1 == IF ~m.on_ground THEN m.velocity_y + GRAVITY_TENTHS ELSE m.velocity_y
      vx1 == IF m.is_in_hitstun THEN 0 ELSE m.velocity_x
      x1 == m.x + vx1
      y1 == m.y + vy1
      half_height == (MARIO_HEIGHT * PX) \div 2
      mario_floor == (FLOOR_Y + MARIO_FLOOR_OFFSET) * PX
      landed == y1 + half_height >= mario_floor
  IN [m EXCEPT !.velocity_x = vx1,
               !.x = x1,
               !.facing_right = (bowser_x >= x1),
               !.y = IF landed THEN mario_floor - half_height ELSE y1,
               !.velocity_y = IF landed THEN 0 ELSE vy1,
               !.on_ground = IF landed THEN TRUE ELSE @]

Mario_end_special(m) ==
  [m EXCEPT !.is_special = FALSE,
            !.special_phase = "idle",
            !.special_index = 0,
            !.special_timer = 0,
            !.special_has_fired = FALSE,
            !.special_charge_timer = 0,
            !.special_charge_tail_loop = FALSE,
            !.special_charge_tail_start = 0]

\* Which branch of the animation chain (block > attack > special > stand) runs.
Mario_anim_branch(m, A) ==
  IF m.is_blocking /\ A.mario_block_frames > 0 THEN "block"
  ELSE IF m.is_attacking /\ A.attack_frames > 0 THEN "attack"
  ELSE IF m.is_special /\ (A.special_charge_frames > 0 \/ A.special_release_frames > 0)
       THEN "special"
  ELSE "stand"

Mario_anim_block(m, A) ==
  IF m.block_timer + 1 >= block_speed
  THEN [m EXCEPT !.block_timer = 0,
                 !.block_index = IF @ < A.mario_block_frames - 1 THEN @ + 1 ELSE @]
  ELSE [m EXCEPT !.block_timer = @ + 1]

Mario_anim_attack(m, A) ==
  IF m.attack_timer + 1 >= mario_attack_speed
  THEN IF m.attack_frame_index + 1 >= A.attack_frames
       THEN [m EXCEPT !.attack_timer = 0,
                      !.is_attacking = FALSE,
                      !.attack_frame_index = 0,
                      !.attack_has_hit = FALSE,
                      !.attack_lock_vertical = FALSE,
                      !.attack_anchor_feet_y = NoAnchor]
       ELSE [m EXCEPT !.attack_timer = 0, !.attack_frame_index = @ + 1]
  ELSE [m EXCEPT !.attack_timer = @ + 1]

\* One animation step of the charge sub-phase; the index was already advanced.
Mario_charge_step(m, A) ==
  IF ~m.special_charge_tail_loop
  THEN IF m.special_index < A.special_charge_frames - 1
       THEN m
       ELSE [m EXCEPT !.special_charge_tail_loop = TRUE,
                      !.special_charge_tail_start = Max(0, A.special_charge_frames - 3),
                      !.special_index = Max(0, A.special_charge_frames - 3)]
  ELSE IF m.special_index >= A.special_charge_frames - 1
       THEN [m EXCEPT !.special_index = m.special_charge_tail_start]
       ELSE m

\* The release step without its has-fired guard.
Mario_release_fires_unguarded(m) == m.is_special

\* Whether the release step calls _spawn_fireball.
Mario_release_fires(m) == ~m.special_has_fired

\* One animation step of the release sub-phase; the index was already advanced.
Mario_release_step(m, A) ==
  LET m1 == IF Mario_release_fires(m) THEN [m EXCEPT !.special_has_fired = TRUE] ELSE m
  IN IF m1.special_index >= A.special_release_frames THEN Mario_end_special(m1) ELSE m1

\* The automatic release tested one tick late.
Mario_charge_elapsed_late(timer) == timer > special_charge_duration

\* Whether the charge timer has reached the automatic release.
Mario_charge_elapsed(timer) == timer >= special_charge_duration

Mario_charge_cap(m) ==
  IF m.special_phase = "charge"
  THEN IF Mario_charge_elapsed(m.special_charge_timer + 1)
       THEN [m EXCEPT !.special_phase = "release",
                      !.special_index = 0,
                      !.special_charge_timer = 0]
       ELSE [m EXCEPT !.special_charge_timer = @ + 1]
  ELSE m

Mario_anim_special(m, A) ==
  LET advance == m.special_timer + 1 >= special_speed
      m1 == IF advance
            THEN [m EXCEPT !.special_timer = 0, !.special_index = @ + 1]
            ELSE [m EXCEPT !.special_timer = @ + 1]
      m2 == IF ~advance THEN m1
            ELSE IF m1.special_phase = "charge" THEN Mario_charge_step(m1, A)
            ELSE IF m1.special_phase = "release" THEN Mario_release_step(m1, A)
            ELSE m1
  IN Mario_charge_cap(m2)

Mario_animate(m, A) ==
  LET branch == Mario_anim_branch(m, A)
  IN IF branch = "block" THEN Mario_anim_block(m, A)
     ELSE IF branch = "attack" THEN Mario_anim_attack(m, A)
     ELSE IF branch = "special" THEN Mario_anim_special(m, A)
     ELSE m

\* Whether this tick's animation step calls _spawn_fireball.
Mario_spawns(m, A) ==
  /\ ~m.is_in_hitstun
  /\ Mario_anim_branch(m, A) = "special"
  /\ m.special_timer + 1 >= special_speed
  /\ m.special_phase = "release"
  /\ Mario_release_fires(m)

\* "Pick current image": only the attack branch keeps state, the feet anchor.
Mario_display(m, A) ==
  LET half_height == (MARIO_HEIGHT * PX) \div 2
      shows_attack ==
        /\ ~(m.is_blocking /\ A.mario_block_frames > 0)
        /\ ~(m.is_playing_hit /\ A.mario_hit_frames > 0)
        /\ ~(m.is_special /\ (A.special_charge_frames > 0 \/ A.special_release_frames > 0))
        /\ m.is_attacking /\ A.attack_frames > 0 /\ ~m.is_special /\ ~m.is_blocking
      m1 == IF shows_attack
            THEN LET anchor == IF ~m.attack_lock_vertical
                               THEN m.y + half_height
                               ELSE m.attack_anchor_feet_y
                     feet_y == IF anchor # NoAnchor THEN anchor ELSE m.y + half_height
                 IN [m EXCEPT !.attack_anchor_feet_y = anchor,
                              !.attack_lock_vertical = TRUE,
                              !.y = feet_y - half_height]
            ELSE m
  IN IF m1.is_attacking /\ m1.attack_lock_vertical /\ m1.attack_anchor_feet_y # NoAnchor
     THEN [m1 EXCEPT !.velocity_y = 0, !.y = m1.attack_anchor_feet_y - half_height]
     ELSE m1

\* The hitstun tick with a linger timer that is never counted down.
Mario_hitstun_tick_holds(m) ==
  IF m.is_in_hitstun
  THEN IF m.hitstun_timer - 1 <= 0
       THEN [m EXCEPT !.hitstun_timer = @ - 1,
                      !.is_in_hitstun = FALSE,
                      !.hit_linger_timer = hitstun_linger]
       ELSE [m EXCEPT !.hitstun_timer = @ - 1]
  ELSE m

\* Hitstun tick and hit linger.
Mario_hitstun_tick(m) ==
  IF m.is_in_hitstun
  THEN IF m.hitstun_timer - 1 <= 0
       THEN [m EXCEPT !.hitstun_timer = @ - 1,
                      !.is_in_hitstun = FALSE,
                      !.hit_linger_timer = hitstun_linger]
       ELSE [m EXCEPT !.hitstun_timer = @ - 1]
  ELSE IF m.is_playing_hit
       THEN IF m.hit_linger_timer > 0
            THEN [m EXCEPT !.hit_linger_timer = @ - 1]
            ELSE [m EXCEPT !.is_playing_hit = FALSE]
       ELSE m

Mario_update(m, bowser_x, A) ==
  IF m.is_in_hitstun THEN m
  ELSE Mario_hitstun_tick(Mario_display(Mario_animate(Mario_move(m, bowser_x), A), A))

Mario_start_hitstun_anim(m, duration, A) ==
  IF A.mario_hit_frames > 0
  THEN [m EXCEPT !.is_playing_hit = TRUE,
                 !.hit_anim_index = 0,
                 !.hit_anim_timer = 0,
                 !.hit_linger_timer = duration]
  ELSE m

\* get_attack_mask() without its active-window test.
Mario_attack_mask_always(m, A) ==
  /\ m.is_attacking
  /\ A.attack_frames > 0

\* get_attack_mask() is not None
Mario_attack_mask_active(m, A) ==
  /\ m.is_attacking
  /\ A.attack_frames > 0
  /\ m.attack_frame_index >= A.attack_frames \div 2

\* ------------------------------------------------------------ Bowser.update
\* The teardown that clears the is_flameblasting flag and nothing else.
Bowser_end_flameblast_flag(b) == [b EXCEPT !.is_flameblasting = FALSE]

\* The teardown that resets the flameblast fields only.
Bowser_end_flameblast_partial(b) ==
  [b EXCEPT !.is_flameblasting = FALSE,
            !.is_charging = FALSE,
            !.charge_start_time = 0,
            !.charge_tail_loop = FALSE,
            !.flameblast_phase = "idle",
            !.flameblast_index = 0,
            !.flameblast_timer = 0,
            !.flameblast_stream_timer = 0,
            !.flame_lock_movement = FALSE,
            !.flameblast_charge_timer = 0]

Bowser_end_flameblast(b) ==
  [b EXCEPT !.is_flameblasting = FALSE,
            !.is_charging = FALSE,
            !.charge_start_time = 0,
            !.charge_tail_loop = FALSE,
            !.flameblast_phase = "idle",
            !.flameblast_index = 0,
            !.flameblast_timer = 0,
            !.flameblast_stream_timer = 0,
            !.flame_lock_movement = FALSE,
            !.flameblast_charge_timer = 0,
            !.is_attacking = FALSE,
            !.attack_frame_index = 0,
            !.attack_timer = 0,
            !.attack_has_hit = FALSE,
            !.is_blocking = FALSE,
            !.is_playing_hit = FALSE]

\* Whether the position update treats the stream as movement-locked.
Bowser_stream_locked(b) ==
  b.is_flameblasting /\ b.flameblast_phase = "stream" /\ b.flame_lock_movement

\* Gravity, position, ground collision and facing.
Bowser_move(b, mario_x) ==
  LET vy1 == IF ~b.on_ground THEN b.velocity_y + GRAVITY_TENTHS ELSE b.velocity_y
      moves == ~b.is_in_hitstun /\ ~Bowser_stream_locked(b)
      x1 == IF moves THEN b.x + b.velocity_x ELSE b.x
      vx1 == IF ~moves /\ Bowser_stream_locked(b) THEN 0 ELSE b.velocity_x
      y1 == b.y + vy1
      half_height == (BOWSER_HEIGHT * PX) \div 2
      bowser_floor == (FLOOR_Y + BOWSER_FLOOR_OFFSET) * PX
      landed == y1 + half_height >= bowser_floor
  IN [b EXCEPT !.x = x1,
               !.velocity_x = vx1,
               !.y = IF landed THEN bowser_floor - half_height ELSE y1,
               !.velocity_y = IF landed THEN 0 ELSE vy1,
               !.on_ground = IF landed THEN TRUE ELSE @,
               !.facing_right = (mario_x >= x1)]

Bowser_any_flame_frames(A) ==
  \/ A.flameblast_charge_frames > 0
  \/ A.flameblast_release_frames > 0
  \/ A.flameblast_stream_frames > 0

\* Which branch of the animation chain (block > hit > charging > flameblast >
\* attack > stand) runs; skip_flameblast is is_in_hitstun at the start of update.
Bowser_anim_branch(b, skip_flameblast, A) ==
  IF b.is_blocking /\ A.bowser_block_frames > 0 THEN "block"
  ELSE IF b.is_playing_hit /\ A.bowser_hit_frames > 0 THEN "hit"
  ELSE IF b.is_charging /\ A.flameblast_charge_frames > 0 THEN "charging"
  ELSE IF ~skip_flameblast /\ b.is_flameblasting /\ Bowser_any_flame_frames(A) /\ ~b.is_blocking
       THEN "flameblast"
  ELSE IF b.is_attacking /\ A.punch_frames > 0 THEN "attack"
  ELSE "stand"

Bowser_anim_block(b, A) ==
  IF b.block_timer + 1 >= block_speed
  THEN [b EXCEPT !.block_timer = 0,
                 !.block_index = IF @ < A.bowser_block_frames - 1 THEN @ + 1 ELSE @]
  ELSE [b EXCEPT !.block_timer = @ + 1]

Bowser_anim_hit(b, A) ==
  IF b.hit_anim_timer + 1 >= hit_anim_speed
  THEN [b EXCEPT !.hit_anim_timer = 0,
                 !.hit_anim_index = IF @ < A.bowser_hit_frames - 1 THEN @ + 1 ELSE @]
  ELSE [b EXCEPT !.hit_anim_timer = @ + 1]

\* Pre-charge (is_charging): animation with tail loop, then the automatic
\* transition to the flameblast after flameblast_charge_duration ticks.
Bowser_anim_charging(b, A) ==
  LET n == A.flameblast_charge_frames
      b1 == [b EXCEPT !.charge_start_time = @ + 1]
      b2 == IF b1.flameblast_timer + 1 >= flameblast_speed
            THEN IF ~b1.charge_tail_loop
                 THEN IF b1.flameblast_index < n - 1
                      THEN [b1 EXCEPT !.flameblast_timer = 0, !.flameblast_index = @ + 1]
                      ELSE [b1 EXCEPT !.flameblast_timer = 0,
                                      !.charge_tail_loop = TRUE,
                                      !.charge_tail_start = Max(0, n - 3),
                                      !.flameblast_index = Max(0, n - 3)]
                 ELSE [b1 EXCEPT !.flameblast_timer = 0,
                                 !.flameblast_index =
                                    IF @ + 1 >= n THEN b1.charge_tail_start ELSE @ + 1]
            ELSE [b1 EXCEPT !.flameblast_timer = @ + 1]
  IN IF b2.flameblast_charge_timer + 1 >= flameblast_charge_duration
     THEN [b2 EXCEPT !.is_charging = FALSE,
                     !.is_flameblasting = TRUE,
                     !.flameblast_phase = "charge",
                     !.flameblast_index = 0,
                     !.flameblast_timer = 0,
                     !.flameblast_charge_timer = 0]
     ELSE [b2 EXCEPT !.flameblast_charge_timer = @ + 1]

\* Whether the stream timer has reached the end of the stream.
Bowser_stream_elapsed(timer) == timer >= flameblast_stream_duration

\* The flameblast phases with the charge phase leading straight to the stream.
Bowser_flameblast_step_skips(b, A) ==
  IF b.flameblast_phase = "charge"
  THEN IF b.flameblast_index < A.flameblast_charge_frames - 1
       THEN [b EXCEPT !.flameblast_index = @ + 1]
       ELSE [b EXCEPT !.flameblast_phase = "stream",
                      !.flameblast_index = 1,
                      !.flameblast_stream_timer = 0]
  ELSE IF b.flameblast_phase = "stream"
  THEN IF Bowser_stream_elapsed(b.flameblast_stream_timer + 1)
       THEN Bowser_end_flameblast([b EXCEPT !.flameblast_stream_timer = @ + 1])
       ELSE [b EXCEPT !.flameblast_stream_timer = @ + 1]
  ELSE b

\* One step of the flameblast phases, taken every flameblast_speed ticks.
Bowser_flameblast_step(b, A) ==
  IF b.flameblast_phase = "charge"
  THEN IF b.flameblast_index < A.flameblast_charge_frames - 1
       THEN [b EXCEPT !.flameblast_index = @ + 1]
       ELSE [b EXCEPT !.flameblast_phase = "release", !.flameblast_index = 0]
  ELSE IF b.flameblast_phase = "release"
  THEN IF b.flameblast_index < A.flameblast_release_frames - 1
       THEN [b EXCEPT !.flameblast_index = @ + 1]
       ELSE [b EXCEPT !.flameblast_phase = "stream",
                      !.flameblast_index = 1,
                      !.flameblast_stream_timer = 0]
  ELSE IF b.flameblast_phase = "stream"
  THEN IF Bowser_stream_elapsed(b.flameblast_stream_timer + 1)
       THEN Bowser_end_flameblast([b EXCEPT !.flameblast_stream_timer = @ + 1])
       ELSE [b EXCEPT !.flameblast_stream_timer = @ + 1]
  ELSE b

Bowser_anim_flameblast(b, A) ==
  IF b.flameblast_timer + 1 >= flameblast_speed
  THEN Bowser_flameblast_step([b EXCEPT !.flameblast_timer = 0], A)
  ELSE [b EXCEPT !.flameblast_timer = @ + 1]

\* The punch animation with its end test one frame late.
Bowser_anim_attack_overrun(b, A) ==
  IF b.attack_timer + 1 >= bowser_attack_speed
  THEN IF b.attack_frame_index >= A.punch_frames
       THEN [b EXCEPT !.attack_timer = 0,
                      !.is_attacking = FALSE,
                      !.attack_frame_index = 0,
                      !.attack_has_hit = FALSE]
       ELSE [b EXCEPT !.attack_timer = 0, !.attack_frame_index = @ + 1]
  ELSE [b EXCEPT !.attack_timer = @ + 1]

Bowser_anim_attack(b, A) ==
  IF b.attack_timer + 1 >= bowser_attack_speed
  THEN IF b.attack_frame_index + 1 >= A.punch_frames
       THEN [b EXCEPT !.attack_timer = 0,
                      !.is_attacking = FALSE,
                      !.attack_frame_index = 0,
                      !.attack_has_hit = FALSE]
       ELSE [b EXCEPT !.attack_timer = 0, !.attack_frame_index = @ + 1]
  ELSE [b EXCEPT !.attack_timer = @ + 1]

Bowser_animate(b, skip_flameblast, A) ==
  LET branch == Bowser_anim_branch(b, skip_flameblast, A)
  IN IF branch = "block" THEN Bowser_anim_block(b, A)
     ELSE IF branch = "hit" THEN Bowser_anim_hit(b, A)
     ELSE IF branch = "charging" THEN Bowser_anim_charging(b, A)
     ELSE IF branch = "flameblast" THEN Bowser_anim_flameblast(b, A)
     ELSE IF branch = "attack" THEN Bowser_anim_attack(b, A)
     ELSE b

\* "Pick current image": which branch of the display chain runs.
Bowser_display_branch(b, A) ==
  IF b.is_blocking /\ A.bowser_block_frames > 0 THEN "block"
  ELSE IF b.is_playing_hit /\ A.bowser_hit_frames > 0 THEN "hit"
  ELSE IF b.is_charging /\ A.flameblast_charge_frames > 0 THEN "charging"
  ELSE IF b.is_flameblasting /\ Bowser_any_flame_frames(A) /\ b.flameblast_phase # "idle"
       THEN IF b.flameblast_phase = "charge" /\ A.flameblast_charge_frames > 0 THEN "flame"
            ELSE IF b.flameblast_phase = "release" /\ A.flameblast_release_frames > 0
                 THEN "flame"
            ELSE IF b.flameblast_phase = "stream" THEN "flame"
            ELSE "fallback_return"
  ELSE IF b.is_flameblasting /\ b.flameblast_phase = "idle" THEN "safety_reset"
  ELSE IF b.is_attacking /\ A.punch_frames > 0 /\ ~b.is_blocking THEN "attack"
  ELSE "stand"

Bowser_display(b, A) ==
  IF Bowser_display_branch(b, A) = "safety_reset"
  THEN [b EXCEPT !.is_flameblasting = FALSE,
                 !.is_charging = FALSE,
                 !.flameblast_phase = "idle"]
  ELSE b

\* Hitstun tick and hit linger.
Bowser_hitstun_tick(b) ==
  IF b.is_in_hitstun
  THEN IF b.hitstun_timer - 1 <= 0
       THEN [b EXCEPT !.hitstun_timer = @ - 1,
                      !.is_in_hitstun = FALSE,
                      !.hit_linger_timer = hitstun_linger]
       ELSE [b EXCEPT !.hitstun_timer = @ - 1]
  ELSE IF b.is_playing_hit
       THEN IF b.hit_linger_timer > 0
            THEN [b EXCEPT !.hit_linger_timer = @ - 1]
            ELSE [b EXCEPT !.is_playing_hit = FALSE]
       ELSE b

Bowser_update(b, mario_x, A) ==
  LET b1 == Bowser_animate(Bowser_move(b, mario_x), b.is_in_hitstun, A)
  IN IF Bowser_display_branch(b1, A) = "fallback_return"
     THEN b1
     ELSE Bowser_hitstun_tick(Bowser_display(b1, A))

Bowser_start_hitstun_anim(b, duration, A) ==
  IF A.bowser_hit_frames > 0
  THEN [b EXCEPT !.is_playing_hit = TRUE,
                 !.hit_anim_index = 0,
                 !.hit_anim_timer = 0,
                 !.hit_linger_timer = duration]
  ELSE b

\* get_attack_hitbox() is not None
Bowser_attack_hitbox_active(b, A) == b.is_attacking /\ A.punch_frames > 0

\* The flame hitbox that is already there during the release frames.
Bowser_flameblast_hitbox_early(b) ==
  b.is_flameblasting /\ b.flameblast_phase \in {"release", "stream"}

\* get_flameblast_hitbox() is not None
Bowser_flameblast_hitbox_active(b) == b.is_flameblasting /\ b.flameblast_phase = "stream"

\* ----------------------------------------------------------------- Fireball
Fireball_left(x) == TruncDiv(2 * x - FireballWidth, 2)

\* Fireball.__init__ as called by Mario._spawn_fireball; moves counts the
\* Fireball.update calls the projectile has had (observer field).
Mario_spawn_fireball(m) ==
  [ x |-> m.x,
    y |-> m.y,
    direction |-> IF m.facing_right THEN 1 ELSE -1,
    index |-> 0,
    timer |-> 0,
    left |-> Fireball_left(m.x),
    alive |-> TRUE,
    moves |-> 0 ]

\* The despawn test on the centre of the box instead of its edges.
Fireball_off_stage_centre(left) ==
  \/ left + FireballWidth \div 2 < -DESPAWN_MARGIN
  \/ left + FireballWidth \div 2 >= WIDTH + DESPAWN_MARGIN

\* Whether the bounding box has left the stage plus margin.
Fireball_off_stage(left) ==
  left + FireballWidth < -DESPAWN_MARGIN \/ left > WIDTH + DESPAWN_MARGIN

Fireball_update(f, A) ==
  IF ~f.alive THEN f
  ELSE LET x1 == f.x + FIREBALL_SPEED * f.direction
           n == Max(1, A.fireball_frames)
           step == f.timer + 1 >= FIREBALL_SPEED_TICKS
           left1 == Fireball_left(x1)
       IN [f EXCEPT !.x = x1,
                    !.timer = IF step THEN 0 ELSE @ + 1,
                    !.index = IF step THEN (@ + 1) % n ELSE @,
                    !.left = left1,
                    !.alive = ~Fireball_off_stage(left1),
                    !.moves = @ + 1]

\* The removal that leaves the list as it was.
RemoveAt_keeps(seq, i) == seq

RemoveAt(seq, i) == [k \in 1..(Len(seq) - 1) |-> IF k < i THEN seq[k] ELSE seq[k + 1]]

\* "Update fireballs" without the removal of dead projectiles.
Fireballs_update_keep(fbs, A) ==
  [k \in 1..Len(fbs) |-> Fireball_update(fbs[k], A)]

\* "Update fireballs": every projectile advances, dead ones are dropped.
Fireballs_update(fbs, A) ==
  LET moved == [k \in 1..Len(fbs) |-> Fireball_update(fbs[k], A)]
  IN SelectSeq(moved, LAMBDA f : f.alive)

\* ------------------------------------------------------- update(): resolver
\* The hammer rule's guard without its has-hit test.
Hammer_tested_rehit(m, A) ==
  /\ m.is_attacking
  /\ m.attack_frame_index < A.attack_frames
  /\ Mario_attack_mask_active(m, A)

\* Guard of the hammer rule, before the mask test.
Hammer_tested(m, A) ==
  /\ m.is_attacking
  /\ m.attack_frame_index < A.attack_frames
  /\ ~m.attack_has_hit
  /\ Mario_attack_mask_active(m, A)

\* Guard of the double-damage branch of the hammer rule.
Hammer_interrupts(b) ==
  b.is_charging /\ b.is_flameblasting /\ b.flameblast_phase = "charge"

\* The hammer hit that leaves a blocking Bowser in his block.
Hammer_hit_bowser_blocked(b, A) ==
  IF Hammer_interrupts(b)
  THEN Bowser_end_flameblast(
         Bowser_start_hitstun_anim(
           [b EXCEPT !.health = @ - HAMMER_DAMAGE_DOUBLE * HP],
           HAMMER_LINGER_DOUBLE, A))
  ELSE Bowser_start_hitstun_anim(
         [b EXCEPT !.health = @ - HAMMER_DAMAGE * HP], HAMMER_LINGER, A)

\* Bowser after a resolved hammer hit.
Hammer_hit_bowser(b, A) ==
  LET b1 == IF Hammer_interrupts(b)
            THEN Bowser_end_flameblast(
                   Bowser_start_hitstun_anim(
                     [b EXCEPT !.health = @ - HAMMER_DAMAGE_DOUBLE * HP],
                     HAMMER_LINGER_DOUBLE, A))
            ELSE Bowser_start_hitstun_anim(
                   [b EXCEPT !.health = @ - HAMMER_DAMAGE * HP], HAMMER_LINGER, A)
  IN [b1 EXCEPT !.is_blocking = FALSE]

\* Guard of the punch rule, before the rectangle test.
Punch_tested(b, A) ==
  /\ b.is_attacking
  /\ b.attack_frame_index < A.punch_frames
  /\ ~b.attack_has_hit
  /\ Bowser_attack_hitbox_active(b, A)

\* Guard of the double-damage branch of the punch rule.
Punch_interrupts(m) == m.is_special /\ m.special_phase = "charge"

\* The punch hit whose double-damage branch leaves the special running.
Punch_hit_mario_keeps_special(m, A) ==
  IF Punch_interrupts(m)
  THEN Mario_start_hitstun_anim(
         [m EXCEPT !.health = @ - PUNCH_DAMAGE_DOUBLE * HP], PUNCH_LINGER_DOUBLE, A)
  ELSE Mario_start_hitstun_anim(
         [m EXCEPT !.health = @ - PUNCH_DAMAGE * HP], PUNCH_LINGER, A)

\* The punch hit that a block wards off.
Punch_hit_mario_blockable(m, A) ==
  IF m.is_blocking THEN m
  ELSE IF Punch_interrupts(m)
  THEN Mario_end_special(
         Mario_start_hitstun_anim(
           [m EXCEPT !.health = @ - PUNCH_DAMAGE_DOUBLE * HP], PUNCH_LINGER_DOUBLE, A))
  ELSE Mario_start_hitstun_anim(
         [m EXCEPT !.health = @ - PUNCH_DAMAGE * HP], PUNCH_LINGER, A)

\* Mario after a resolved punch hit.
Punch_hit_mario(m, A) ==
  IF Punch_interrupts(m)
  THEN Mario_end_special(
         Mario_start_hitstun_anim(
           [m EXCEPT !.health = @ - PUNCH_DAMAGE_DOUBLE * HP], PUNCH_LINGER_DOUBLE, A))
  ELSE Mario_start_hitstun_anim(
         [m EXCEPT !.health = @ - PUNCH_DAMAGE * HP], PUNCH_LINGER, A)

\* The flame tick that takes a whole second's damage.
Flame_hit_mario_per_second(m, A) ==
  Mario_start_hitstun_anim(
    [m EXCEPT !.health = @ - FLAME_DAMAGE_EIGHTHS * 60], FLAME_LINGER, A)

\* Mario after one tick inside the flame stream.
Flame_hit_mario(m, A) ==
  Mario_start_hitstun_anim(
    [m EXCEPT !.health = @ - FLAME_DAMAGE_EIGHTHS], FLAME_LINGER, A)

\* The fireball hit that a block wards off.
Fireball_hit_bowser_blockable(b, A) ==
  IF b.is_blocking THEN b
  ELSE Bowser_start_hitstun_anim(
         [b EXCEPT !.health = @ - FIREBALL_DAMAGE * HP], FIREBALL_LINGER, A)

\* Bowser after a fireball hit (both branches of the block test).
Fireball_hit_bowser(b, A) ==
  Bowser_start_hitstun_anim(
    [b EXCEPT !.is_blocking = FALSE, !.health = @ - FIREBALL_DAMAGE * HP],
    FIREBALL_LINGER, A)

\* The index of the first of n projectiles to overlap a surface, 0 for none,
\* when each projectile's overlap test has an outcome in outcomes.
FirstOverlap(n, outcomes) ==
  { k \in 0..n : /\ (k = 0 /\ n > 0) => FALSE \in outcomes
                 /\ k > 0 => TRUE \in outcomes
                 /\ k > 1 => FALSE \in outcomes }

\* The overlap tests' outcomes a tick can meet: hammer mask vs Bowser's body,
\* punch hitbox vs Mario's hurtbox, flame hitbox vs Mario's hurtbox (each only
\* while that attack surface exists), and which live fireball, if any, is the
\* first to overlap Bowser's hurtbox (fb_body) and the flame hitbox (fb_flame).
\* reach says, per test, which outcomes the combatants' placement allows.
Contacts(m, b, fbs, A, reach) ==
  { [hammer |-> h, punch |-> p, flame |-> f, fb_body |-> i, fb_flame |-> j] :
      h \in (IF Mario_attack_mask_active(m, A) THEN reach.hammer ELSE {FALSE}),
      p \in (IF Bowser_attack_hitbox_active(b, A) THEN reach.punch ELSE {FALSE}),
      f \in (IF Bowser_flameblast_hitbox_active(b) THEN reach.flame ELSE {FALSE}),
      i \in FirstOverlap(Len(fbs), reach.fb_body),
      j \in (IF Bowser_flameblast_hitbox_active(b)
             THEN FirstOverlap(Len(fbs), reach.fb_flame) ELSE {0}) }

\* No attack surface reaches its target / every outcome is possible.
OutOfReach ==
  [hammer |-> {FALSE}, punch |-> {FALSE}, flame |-> {FALSE},
   fb_body |-> {FALSE}, fb_flame |-> {FALSE}]
AnyReach ==
  [hammer |-> BOOLEAN, punch |-> BOOLEAN, flame |-> BOOLEAN,
   fb_body |-> BOOLEAN, fb_flame |-> BOOLEAN]

\* The collision rules in the order update() applies them, then the
\* projectiles' advance.  w holds Mario, Bowser and the projectile list after
\* both combatants' own update; c is the overlap outcome.
Resolve(w, c, A) ==
  LET hammer_hit == Hammer_tested(w.m, A) /\ c.hammer
      m2 == IF hammer_hit THEN [w.m EXCEPT !.attack_has_hit = TRUE] ELSE w.m
      b2 == IF hammer_hit THEN Hammer_hit_bowser(w.b, A) ELSE w.b
      punch_hit == Punch_tested(b2, A) /\ c.punch
      b3 == IF punch_hit THEN [b2 EXCEPT !.attack_has_hit = TRUE] ELSE b2
      m3 == IF punch_hit THEN Punch_hit_mario(m2, A) ELSE m2
      flame_hit == Bowser_flameblast_hitbox_active(b3) /\ c.flame /\ ~m3.is_blocking
      m4 == IF flame_hit THEN Flame_hit_mario(m3, A) ELSE m3
      body_hit == c.fb_body > 0
      fbs2 == IF body_hit THEN RemoveAt(w.fbs, c.fb_body) ELSE w.fbs
      b4 == IF body_hit THEN Fireball_hit_bowser(b3, A) ELSE b3
      stream_hit == /\ Bowser_flameblast_hitbox_active(b4)
                    /\ c.fb_flame > 0 /\ c.fb_flame <= Len(fbs2)
      fbs3 == IF stream_hit THEN RemoveAt(fbs2, c.fb_flame) ELSE fbs2
      b5 == IF stream_hit THEN Bowser_end_flameblast(b4) ELSE b4
  IN [ m |-> m4, b |-> b5, fbs |-> Fireballs_update(fbs3, A),
       hammer_hit |-> hammer_hit,
       punch_hit |-> punch_hit,
       hammer_interrupt |-> hammer_hit /\ Hammer_interrupts(w.b),
       punch_interrupt |-> punch_hit /\ Punch_interrupts(m2),
       flame_hit |-> flame_hit,
       body_hit |-> body_hit,
       body_hit_moves |-> IF body_hit THEN w.fbs[c.fb_body].moves ELSE 0,
       stream_hit |-> stream_hit ]

\* Mario.update() then Bowser.update(), with the fireball Mario may spawn.
Advance(m, b, fbs, A) ==
  LET moved == Mario_move(m, b.x)
      spawned == Mario_spawns(moved, A)
      m1 == Mario_update(m, b.x, A)
  IN [ m |-> m1,
       b |-> Bowser_update(b, m1.x, A),
       fbs |-> IF spawned THEN Append(fbs, Mario_spawn_fireball(moved)) ELSE fbs,
       spawned |-> spawned ]

\* ------------------------------------------------------------- observers
\* obs records, for the properties, what the program did: hits applied since
\* the last attack trigger, ticks and spawns since the last special trigger,
\* ticks spent in the flame stream, each combatant's facing at his last phase
\* trigger, the collision rules that fired in the last tick and whether that
\* tick resolved a fireball that had not yet moved.  The program never reads
\* it.
ObsInit ==
  [ hammer_hits |-> 0,
    punch_hits |-> 0,
    sp_ticks |-> 0,
    sp_quiet |-> FALSE,
    sp_release_ticks |-> 0,
    sp_spawned |-> 0,
    sp_interrupted |-> FALSE,
    stream_ticks |-> 0,
    m_facing0 |-> MarioInit.facing_right,
    b_facing0 |-> BowserInit.facing_right,
    fired |-> {},
    fb_tested_unmoved |-> FALSE ]

\* The collision rules a tick fired, from the resolver's outcome r.
FiredRules(r) ==
  {n \in {"hammer", "hammer_interrupt", "punch", "punch_interrupt",
          "flame", "fireball", "fireball_vs_stream"} :
      \/ n = "hammer" /\ r.hammer_hit
      \/ n = "hammer_interrupt" /\ r.hammer_interrupt
      \/ n = "punch" /\ r.punch_hit
      \/ n = "punch_interrupt" /\ r.punch_interrupt
      \/ n = "flame" /\ r.flame_hit
      \/ n = "fireball" /\ r.body_hit
      \/ n = "fireball_vs_stream" /\ r.stream_hit}

ObsTick(o, w, r) ==
  [ o EXCEPT
      !.hammer_hits = IF r.hammer_hit THEN Min(@ + 1, MaxCount) ELSE @,
      !.punch_hits = IF r.punch_hit THEN Min(@ + 1, MaxCount) ELSE @,
      !.sp_spawned = IF w.spawned THEN Min(@ + 1, MaxCount) ELSE @,
      !.sp_interrupted = @ \/ r.punch_interrupt,
      !.sp_quiet = @ /\ ~r.punch_hit /\ r.m.is_special,
      !.sp_ticks = IF r.m.is_special THEN Min(@ + 1, special_charge_duration + 1) ELSE 0,
      !.sp_release_ticks =
          IF ~r.m.is_special THEN 0
          ELSE IF mario.special_phase = "release" THEN Min(@ + 1, special_speed + 1)
          ELSE @,
      !.stream_ticks =
          IF r.b.flameblast_phase = "stream" /\ bowser.flameblast_phase = "stream"
          THEN Min(@ + 1, flameblast_stream_duration * flameblast_speed + 1)
          ELSE 0,
      !.fired = FiredRules(r),
      !.fb_tested_unmoved = r.body_hit /\ r.body_hit_moves = 0 ]

InArena(m, b) ==
  /\ m.x >= MARIO_SPAWN_X - MaxWalk /\ m.x <= MARIO_SPAWN_X + MaxWalk
  /\ b.x >= BOWSER_SPAWN_X - MaxWalk /\ b.x <= BOWSER_SPAWN_X + MaxWalk

\* ----------------------------------------------------------------- update()
update(reach) ==
  /\ game_state = "playing"
  /\ LET w == Advance(mario, bowser, fireballs, assets)
     IN \E c \in Contacts(w.m, w.b, w.fbs, assets, reach) :
          LET r == Resolve(w, c, assets)
          IN /\ InArena(r.m, r.b)
             /\ mario' = r.m
             /\ bowser' = r.b
             /\ fireballs' = r.fbs
             /\ obs' = ObsTick(obs, w, r)
  /\ UNCHANGED <<game_state, assets, keys_used, sheet>>

\* ------------------------------------------------------------ on_key_down()
Mario_attack_allowed(m) == ~m.is_blocking

Mario_special_allowed(m) == ~m.is_blocking /\ ~m.is_special

Mario_key_down(m, key) ==
  IF key = "A" THEN [m EXCEPT !.velocity_x = -WALK_SPEED, !.facing_right = FALSE]
  ELSE IF key = "D" THEN [m EXCEPT !.velocity_x = WALK_SPEED, !.facing_right = TRUE]
  ELSE IF key = "W" /\ m.on_ground /\ ~m.is_playing_hit
       THEN [m EXCEPT !.velocity_y = -MARIO_JUMP_SPEED * PX, !.on_ground = FALSE]
  ELSE IF key = "Z" /\ Mario_attack_allowed(m)
       THEN [m EXCEPT !.is_attacking = TRUE,
                      !.attack_frame_index = 0,
                      !.attack_timer = 0,
                      !.attack_has_hit = FALSE]
  ELSE IF key = "X" /\ Mario_special_allowed(m)
       THEN [m EXCEPT !.is_special = TRUE,
                      !.special_phase = "charge",
                      !.special_index = 0,
                      !.special_timer = 0,
                      !.special_has_fired = FALSE,
                      !.special_charge_timer = 0,
                      !.special_charge_tail_loop = FALSE,
                      !.special_charge_tail_start = 0]
  ELSE IF key = "C"
       THEN [m EXCEPT !.is_blocking = TRUE, !.block_index = 0, !.block_timer = 0]
  ELSE m

Bowser_charge_allowed(b) ==
  ~b.is_in_hitstun /\ ~b.is_flameblasting /\ ~b.is_blocking /\ ~b.is_charging

Bowser_attack_allowed(b) == ~b.is_in_hitstun /\ ~b.is_blocking

\* The block guard without its heavy-attack tests.
Bowser_block_unguarded(b) == ~b.is_in_hitstun /\ ~b.is_blocking

Bowser_block_allowed(b) ==
  ~b.is_in_hitstun /\ ~b.is_flameblasting /\ ~b.is_blocking /\ ~b.is_charging

Bowser_key_down(b, key) ==
  IF b.is_in_hitstun THEN b
  ELSE IF key = "LEFT" THEN [b EXCEPT !.velocity_x = -WALK_SPEED, !.facing_right = FALSE]
  ELSE IF key = "RIGHT" THEN [b EXCEPT !.velocity_x = WALK_SPEED, !.facing_right = TRUE]
  ELSE IF key = "UP" /\ b.on_ground
       THEN [b EXCEPT !.velocity_y = -BOWSER_JUMP_SPEED * PX, !.on_ground = FALSE]
  ELSE IF key = "PERIOD" /\ Bowser_charge_allowed(b)
       THEN [b EXCEPT !.is_charging = TRUE,
                      !.charge_start_time = 0,
                      !.flameblast_index = 0,
                      !.flameblast_timer = 0,
                      !.charge_tail_loop = FALSE,
                      !.flameblast_charge_timer = 0]
  ELSE IF key = "SLASH" /\ Bowser_attack_allowed(b)
       THEN [b EXCEPT !.is_attacking = TRUE,
                      !.attack_frame_index = 0,
                      !.attack_timer = 0,
                      !.attack_has_hit = FALSE]
  ELSE IF key = "COMMA" /\ Bowser_block_allowed(b)
       THEN [b EXCEPT !.is_blocking = TRUE, !.block_index = 0, !.block_timer = 0]
  ELSE IF key = "PERIOD" /\ b.is_flameblasting /\ b.flameblast_phase = "stream"
       THEN Bowser_end_flameblast(b)
  ELSE b

ObsKeyDown(o, m, b, key) ==
  LET mario_trigger == \/ key = "Z" /\ Mario_attack_allowed(m)
                       \/ key = "X" /\ Mario_special_allowed(m)
                       \/ key = "C"
      bowser_trigger == /\ ~b.is_in_hitstun
                        /\ \/ key = "PERIOD" /\ Bowser_charge_allowed(b)
                           \/ key = "SLASH" /\ Bowser_attack_allowed(b)
                           \/ key = "COMMA" /\ Bowser_block_allowed(b)
      o1 == [o EXCEPT !.sp_quiet = FALSE,
                      !.m_facing0 = IF ~m.is_in_hitstun /\ mario_trigger
                                    THEN m.facing_right ELSE @,
                      !.b_facing0 = IF ~m.is_in_hitstun /\ bowser_trigger
                                    THEN b.facing_right ELSE @]
  IN IF m.is_in_hitstun THEN o1
     ELSE IF key = "Z" /\ Mario_attack_allowed(m) THEN [o1 EXCEPT !.hammer_hits = 0]
     ELSE IF key = "X" /\ Mario_special_allowed(m)
          THEN [o1 EXCEPT !.sp_ticks = 0,
                          !.sp_quiet = ~m.is_attacking,
                          !.sp_release_ticks = 0,
                          !.sp_spawned = 0,
                          !.sp_interrupted = FALSE]
     ELSE IF key = "SLASH" /\ ~b.is_in_hitstun /\ Bowser_attack_allowed(b)
          THEN [o1 EXCEPT !.punch_hits = 0]
     ELSE o1

\* The key-down handler that serves the combatants' keys in the menu too.
on_key_down_in_menu(key) ==
  LET state1 == IF key = "SPACE" /\ game_state = "menu" THEN "playing" ELSE game_state
      handled == ~mario.is_in_hitstun
  IN /\ game_state' = state1
     /\ mario' = IF handled THEN Mario_key_down(mario, key) ELSE mario
     /\ bowser' = IF handled THEN Bowser_key_down(bowser, key) ELSE bowser
     /\ obs' = ObsKeyDown(obs, mario, bowser, key)
     /\ UNCHANGED <<fireballs, assets, sheet>>

on_key_down(key) ==
  LET state1 == IF key = "SPACE" /\ game_state = "menu" THEN "playing" ELSE game_state
      handled == state1 = "playing" /\ ~mario.is_in_hitstun
  IN /\ game_state' = state1
     /\ mario' = IF handled THEN Mario_key_down(mario, key) ELSE mario
     /\ bowser' = IF handled THEN Bowser_key_down(bowser, key) ELSE bowser
     /\ obs' = IF state1 = "playing" THEN ObsKeyDown(obs, mario, bowser, key) ELSE obs
     /\ UNCHANGED <<fireballs, assets, sheet>>

\* -------------------------------------------------------------- on_key_up()
Mario_key_up(m, key) ==
  IF key = "A" /\ m.velocity_x < 0 THEN [m EXCEPT !.velocity_x = 0]
  ELSE IF key = "D" /\ m.velocity_x > 0 THEN [m EXCEPT !.velocity_x = 0]
  ELSE IF key = "C"
       THEN [m EXCEPT !.is_blocking = FALSE, !.block_index = 0, !.block_timer = 0]
  ELSE m

\* Whether one of Mario's branches of the single if/elif chain takes the key.
Mario_key_up_taken(m, key) ==
  \/ m.is_in_hitstun
  \/ key = "A" /\ m.velocity_x < 0
  \/ key = "D" /\ m.velocity_x > 0
  \/ key = "C"

Bowser_key_up(b, key) ==
  IF b.is_in_hitstun THEN b
  ELSE IF key = "LEFT" /\ b.velocity_x < 0 THEN [b EXCEPT !.velocity_x = 0]
  ELSE IF key = "RIGHT" /\ b.velocity_x > 0 THEN [b EXCEPT !.velocity_x = 0]
  ELSE IF key = "COMMA"
       THEN [b EXCEPT !.is_blocking = FALSE, !.block_index = 0, !.block_timer = 0]
  ELSE IF key = "PERIOD" /\ b.is_flameblasting /\ b.flameblast_phase = "stream"
       THEN Bowser_end_flameblast(b)
  ELSE b

on_key_up(key) ==
  LET playing == game_state = "playing"
  IN /\ mario' = IF playing /\ ~mario.is_in_hitstun THEN Mario_key_up(mario, key) ELSE mario
     /\ bowser' = IF playing /\ ~Mario_key_up_taken(mario, key)
                  THEN Bowser_key_up(bowser, key) ELSE bowser
     /\ obs' = IF playing THEN [obs EXCEPT !.sp_quiet = FALSE] ELSE obs
     /\ UNCHANGED <<game_state, fireballs, assets, sheet>>

\* ---------------------------------------------------------- sprite sheets
\* A sheet is its width w, its height h and the set px of its cells <<x, y>>
\* whose colour differs from the background colour, the colour of cell
\* <<0, 0>>; a frame is a smaller sheet cut out of it.  The variable sheet
\* holds the sheet being loaded and, once sliced, its frames.
NoSheet == [w |-> 0, h |-> 0, px |-> {}, frames |-> <<>>, sliced |-> FALSE]

\* frame.blit(sheet, (0, 0), rect): the cells of the rectangle, moved to the
\* frame's origin.
Blit(px, x0, y0, fw, fh) ==
  {<<c[1] - x0, c[2] - y0>> :
     c \in {d \in px : /\ d[1] >= x0 /\ d[1] < x0 + fw
                       /\ d[2] >= y0 /\ d[2] < y0 + fh}}

non_bg_cols(s) ==
  [x \in 0..(s.w - 1) |-> \E y \in 0..(s.h - 1) : <<x, y>> \in s.px]

\* The scan of the columns from column x on, with the loop's in_run, start
\* and ranges.
RECURSIVE Column_ranges(_, _, _, _, _)
Column_ranges(s, x, in_run, start, ranges) ==
  IF x >= s.w
  THEN IF in_run THEN Append(ranges, <<start, s.w - 1>>) ELSE ranges
  ELSE LET has == non_bg_cols(s)[x]
       IN IF has /\ ~in_run THEN Column_ranges(s, x + 1, TRUE, x, ranges)
          ELSE IF ~has /\ in_run
               THEN Column_ranges(s, x + 1, FALSE, start, Append(ranges, <<start, x - 1>>))
          ELSE Column_ranges(s, x + 1, in_run, start, ranges)

\* The rectangle of a range over the full height of the sheet.
Tight_rect_full(s, range) ==
  [x0 |-> range[1], x1 |-> range[2], min_y |-> 0, max_y |-> s.h - 1]

\* The rectangle of a range with its tight vertical bounds min_y, max_y.
Tight_rect(s, range) ==
  LET rows == {c[2] : c \in {d \in s.px : d[1] >= range[1] /\ d[1] <= range[2]}}
  IN [x0 |-> range[1], x1 |-> range[2],
      min_y |-> IF rows = {} THEN s.h ELSE CHOOSE y \in rows : \A z \in rows : y <= z,
      max_y |-> IF rows = {} THEN 0 ELSE CHOOSE y \in rows : \A z \in rows : y >= z]

Tight_rects(s) ==
  LET ranges == Column_ranges(s, 0, FALSE, 0, <<>>)
  IN SelectSeq([k \in 1..Len(ranges) |-> Tight_rect(s, ranges[k])],
               LAMBDA r : r.min_y <= r.max_y)

Frame_of(s, r) ==
  [w |-> r.x1 - r.x0 + 1, h |-> r.max_y - r.min_y + 1,
   px |-> Blit(s.px, r.x0, r.min_y, r.x1 - r.x0 + 1, r.max_y - r.min_y + 1)]

\* The fallback: square slices as wide as the sheet is high.
Square_slices(s) ==
  LET fw == IF s.h > 0 THEN s.h ELSE s.w
      count == IF fw > 0 THEN Max(1, s.w \div fw) ELSE 0
  IN [i \in 1..count |-> [w |-> fw, h |-> s.h,
                          px |-> Blit(s.px, (i - 1) * fw, 0, fw, s.h)]]

Bowser_slice_sheet(s) ==
  LET rects == Tight_rects(s)
  IN IF rects = <<>> THEN Square_slices(s)
     ELSE [k \in 1..Len(rects) |-> Frame_of(s, rects[k])]

\* The four neighbours the flood fill visits.
Neighbours(c) ==
  {<<c[1] - 1, c[2]>>, <<c[1] + 1, c[2]>>, <<c[1], c[2] - 1>>, <<c[1], c[2] + 1>>}

\* The cells the flood fill reaches from the cells seen.
RECURSIVE Flood(_, _)
Flood(mask, seen) ==
  LET next == seen \cup {c \in mask : Neighbours(c) \cap seen # {}}
  IN IF next = seen THEN seen ELSE Flood(mask, next)

NoBounds == [minx |-> -1, miny |-> -1, maxx |-> -1, maxy |-> -1]

Bounds_of(cells) ==
  [minx |-> CHOOSE x \in {c[1] : c \in cells} : \A c \in cells : x <= c[1],
   miny |-> CHOOSE y \in {c[2] : c \in cells} : \A c \in cells : y <= c[2],
   maxx |-> CHOOSE x \in {c[1] : c \in cells} : \A c \in cells : x >= c[1],
   maxy |-> CHOOSE y \in {c[2] : c \in cells} : \A c \in cells : y >= c[2]]

\* The scan of a frame's cells, ix outside and iy inside, from cell number i
\* on: the bounds of the first component of the largest size.
RECURSIVE Largest_scan(_, _, _, _, _)
Largest_scan(f, i, visited, largest_size, largest_bounds) ==
  IF i >= f.w * f.h THEN largest_bounds
  ELSE LET c == <<i \div f.h, i % f.h>>
       IN IF c \in f.px /\ c \notin visited
          THEN LET comp == Flood(f.px, {c})
               IN IF Cardinality(comp) > largest_size
                  THEN Largest_scan(f, i + 1, visited \cup comp,
                                    Cardinality(comp), Bounds_of(comp))
                  ELSE Largest_scan(f, i + 1, visited \cup comp,
                                    largest_size, largest_bounds)
          ELSE Largest_scan(f, i + 1, visited, largest_size, largest_bounds)

\* "Further crop to largest connected component".
Largest_crop(f) ==
  LET b == Largest_scan(f, 0, {}, 0, NoBounds)
  IN IF b # NoBounds
     THEN [w |-> b.maxx - b.minx + 1, h |-> b.maxy - b.miny + 1,
           px |-> Blit(f.px, b.minx, b.miny, b.maxx - b.minx + 1, b.maxy - b.miny + 1)]
     ELSE f

Bowser_slice_sheet_tight(s) ==
  LET rects == Tight_rects(s)
  IN IF rects = <<>> THEN Square_slices(s)
     ELSE [k \in 1..Len(rects) |-> Largest_crop(Frame_of(s, rects[k]))]

\* The loader slices the sheet.
slice_sheet ==
  /\ ~sheet.sliced
  /\ sheet' = [sheet EXCEPT !.frames = Bowser_slice_sheet(sheet), !.sliced = TRUE]
  /\ UNCHANGED <<game_state, mario, bowser, fireballs, assets, obs, keys_used>>

slice_sheet_tight ==
  /\ ~sheet.sliced
  /\ sheet' = [sheet EXCEPT !.frames = Bowser_slice_sheet_tight(sheet), !.sliced = TRUE]
  /\ UNCHANGED <<game_state, mario, bowser, fireballs, assets, obs, keys_used>>

\* ------------------------------------------------------------------- Init
Init ==
  /\ game_state = "menu"
  /\ mario = MarioInit
  /\ bowser = BowserInit
  /\ fireballs = <<>>
  /\ assets = LoadedAssets
  /\ obs = ObsInit
  /\ keys_used = 0
  /\ sheet = NoSheet

KeysDown == {"SPACE", "A", "D", "W", "Z", "X", "C",
             "LEFT", "RIGHT", "UP", "PERIOD", "SLASH", "COMMA"}
KeysUp == {"A", "D", "C", "LEFT", "RIGHT", "COMMA", "PERIOD"}

\* A key-down event of the set keys, at most budget key events in a run.
KeyDown(keys, budget) ==
  \E key \in keys :
    /\ keys_used < budget
    /\ keys_used' = keys_used + 1
    /\ on_key_down(key)

KeyUp(keys, budget) ==
  \E key \in keys :
    /\ keys_used < budget
    /\ keys_used' = keys_used + 1
    /\ on_key_up(key)

\* ------------------------------------------------------- specifications
\* Each specification is the program under one placement of the combatants
\* (which attack surfaces reach their target) and one set of keys, with at
\* most a given number of key events per run.

\* Bowser stands inside the hammer's arc; Mario swings again and again.
MaxKeysKO == 27
TickKO == update([OutOfReach EXCEPT !.hammer = {TRUE}])
KeyDownKO == KeyDown({"SPACE", "Z"}, MaxKeysKO)
NextKO == TickKO \/ KeyDownKO
SpecKO == Init /\ [][NextKO]_vars

\* Melee range: hammer and punch overlap their target on every tick in which
\* they exist; attack and block keys.
MaxKeysMelee == 3
TickMelee == update([OutOfReach EXCEPT !.hammer = {TRUE}, !.punch = {TRUE}])
KeyDownMelee == KeyDown({"SPACE", "Z", "SLASH", "C"}, MaxKeysMelee)
KeyUpMelee == KeyUp({"C"}, MaxKeysMelee)
NextMelee == TickMelee \/ KeyDownMelee \/ KeyUpMelee
SpecMelee == Init /\ [][NextMelee]_vars

\* Mario's special against a Bowser in punching range and in the fireball's
\* path; Mario may also swing and block meanwhile.
MaxKeysSpecial == 3
TickSpecial == update([OutOfReach EXCEPT !.punch = {TRUE}, !.fb_body = {TRUE}])
KeyDownSpecial == KeyDown({"SPACE", "X", "Z", "C", "SLASH"}, MaxKeysSpecial)
KeyUpSpecial == KeyUp({"C"}, MaxKeysSpecial)
NextSpecial == TickSpecial \/ KeyDownSpecial \/ KeyUpSpecial
SpecSpecial == Init /\ [][NextSpecial]_vars

\* Bowser's heavy attack inside the hammer's arc; Bowser may walk, Mario may
\* swing, the heavy key may be pressed again or released.
MaxKeysStream == 3
TickStream == update([OutOfReach EXCEPT !.hammer = {TRUE}])
KeyDownStream == KeyDown({"SPACE", "PERIOD", "RIGHT", "Z"}, MaxKeysStream)
KeyUpStream == KeyUp({"PERIOD"}, MaxKeysStream)
NextStream == TickStream \/ KeyDownStream \/ KeyUpStream
SpecStream == Init /\ [][NextStream]_vars

\* Every key, every overlap outcome.
MaxKeys == 2
Tick == update(AnyReach)
AnyKeyDown == KeyDown(KeysDown, MaxKeys)
AnyKeyUp == KeyUp(KeysUp, MaxKeys)
Next == Tick \/ AnyKeyDown \/ AnyKeyUp
Spec == Init /\ [][Next]_vars

\* ----------------------------------------------------------------- claims

\* C1: in every reachable state mario.health >= 0 and bowser.health >= 0,
\* however many hits are resolved.
C1_HealthNeverNegative == mario.health >= 0 /\ bowser.health >= 0

\* C2: between one attack trigger and the end of that swing or the next
\* trigger, the hammer's damage is applied to Bowser at most once and the
\* punch's damage to Mario at most once, however many ticks they overlap.
C2_HitOncePerAttack == obs.hammer_hits <= 1 /\ obs.punch_hits <= 1

\* The hammer has hit once, its mask is still out a frame later and overlaps
\* Bowser's body (melee range), and the same for a punch that has hit once.
C2_SecondOverlapNoDamage ==
  /\ obs.hammer_hits = 1
  /\ mario.attack_has_hit
  /\ Mario_attack_mask_active(mario, assets)
  /\ mario.attack_frame_index = assets.attack_frames - 1
  /\ obs.punch_hits = 1
  /\ bowser.attack_has_hit
  /\ Bowser_attack_hitbox_active(bowser, assets)

\* The phase flags of a combatant that are set.
Mario_phase_flags(m) ==
  {f \in {"blocking", "playing_hit", "special", "attacking"} :
      \/ f = "blocking" /\ m.is_blocking
      \/ f = "playing_hit" /\ m.is_playing_hit
      \/ f = "special" /\ m.is_special
      \/ f = "attacking" /\ m.is_attacking}
Bowser_phase_flags(b) ==
  {f \in {"blocking", "playing_hit", "heavy", "attacking"} :
      \/ f = "blocking" /\ b.is_blocking
      \/ f = "playing_hit" /\ b.is_playing_hit
      \/ f = "heavy" /\ (b.is_charging \/ b.is_flameblasting)
      \/ f = "attacking" /\ b.is_attacking}

\* C3: for each combatant at most one of the phase flags blocking,
\* playing-hit, special/heavy and attacking is set in every reachable state;
\* in particular is_blocking and is_attacking are never both true.
C3_PhaseExclusive ==
  /\ Cardinality(Mario_phase_flags(mario)) <= 1
  /\ Cardinality(Bowser_phase_flags(bowser)) <= 1

\* C4: a tick that resolves a hammer hit on a Bowser who is charging his
\* heavy attack takes 40 health from him, ends the charge (is_charging and
\* is_flameblasting false, flameblast_phase idle) and leaves him playing-hit.
C4_InterruptDoubles ==
  [][(~mario.attack_has_hit /\ mario'.attack_has_hit /\ bowser.is_charging)
       => /\ bowser'.health = bowser.health - HAMMER_DAMAGE_DOUBLE * HP
          /\ ~bowser'.is_charging
          /\ ~bowser'.is_flameblasting
          /\ bowser'.flameblast_phase = "idle"
          /\ bowser'.is_playing_hit]_vars

\* C5: after a special triggered while neither blocking nor attacking, with
\* no key event and no punch hit since, special_phase is charge at the end of
\* each of the first 149 ticks and release at the end of the 150th.
C5_ChargeAutoCap ==
  obs.sp_quiet =>
    /\ obs.sp_ticks < special_charge_duration => mario.special_phase = "charge"
    /\ obs.sp_ticks = special_charge_duration => mario.special_phase = "release"

\* An undisturbed special at the end of its 150th tick, just released.
C5_ReleasedAtCap ==
  /\ obs.sp_quiet
  /\ obs.sp_ticks = special_charge_duration
  /\ mario.special_phase = "release"
  /\ ~mario.special_has_fired

\* C6: whatever keys are pressed or held meanwhile, Mario is never in the
\* charge sub-phase for more than 150 ticks of one activation.
C6_ChargeCapped ==
  (mario.is_special /\ mario.special_phase = "charge")
    => obs.sp_ticks <= special_charge_duration

\* C7: the fireball is appended in the first tick in which special_phase is
\* release: once a tick has run in the release phase, it has been spawned.
C7_SpawnAtReleaseStart ==
  (mario.is_special /\ obs.sp_release_ticks >= 1) => obs.sp_spawned >= 1

\* C8: between one special trigger and the return of is_special to false
\* _spawn_fireball runs at most once, and a special that a punch force-ends
\* during charge spawns none.
C8_OneProjectilePerSpecial ==
  /\ obs.sp_spawned <= 1
  /\ obs.sp_interrupted => obs.sp_spawned = 0

\* A special that ran to its end (the release animation stepped again after
\* the spawn) and spawned one fireball.
C8_CompletedWithOneSpawn ==
  /\ obs.sp_spawned = 1
  /\ ~mario.is_special
  /\ ~obs.sp_interrupted

\* C9: Bowser stays in the stream phase for exactly 60 ticks: he is never
\* still in it after more than flameblast_stream_duration ticks of stream.
C9_StreamLastsOneSecond ==
  (bowser.is_flameblasting /\ bowser.flameblast_phase = "stream")
    => obs.stream_ticks <= flameblast_stream_duration

\* C10: a tick that starts and ends in the stream phase leaves bowser.x
\* unchanged.
C10_StreamLocksX ==
  [][(bowser.is_flameblasting /\ bowser.flameblast_phase = "stream"
        /\ bowser'.is_flameblasting /\ bowser'.flameblast_phase = "stream")
       => bowser'.x = bowser.x]_vars

\* Mario walks across to Bowser's far side while either of them attacks;
\* nothing is in reach.
MaxKeysFacing == 4
TickFacing == update(OutOfReach)
KeyDownFacing == KeyDown({"SPACE", "D", "Z", "SLASH"}, MaxKeysFacing)
NextFacing == TickFacing \/ KeyDownFacing
SpecFacing == Init /\ [][NextFacing]_vars

\* Whether one of the phases that are said to freeze facing is active.
Mario_phase_active(m) == m.is_attacking \/ m.is_special \/ m.is_blocking
Bowser_phase_active(b) ==
  b.is_attacking \/ b.is_charging \/ b.is_flameblasting \/ b.is_blocking

C12_ResolvedAfterAdvance == ~obs.fb_tested_unmoved

\* ---------------------------------------------------------------- frames
\* Every animation of both combatants, with the frame sets as loaded or with
\* one frame in every set; hammer, punch and fireball connect.
MaxKeysFrames == 2
MARIO_STAND_FRAMES == 2
BOWSER_STAND_FRAMES == 2

SingleFrameAssets ==
  [ attack_frames |-> 1,
    special_charge_frames |-> 1,
    special_release_frames |-> 1,
    mario_block_frames |-> 1,
    mario_hit_frames |-> 1,
    punch_frames |-> 1,
    flameblast_charge_frames |-> 1,
    flameblast_release_frames |-> 1,
    flameblast_stream_frames |-> 1,
    bowser_block_frames |-> 1,
    bowser_hit_frames |-> 1,
    fireball_frames |-> 1 ]

InitFrames ==
  /\ game_state = "menu"
  /\ mario = MarioInit
  /\ bowser = BowserInit
  /\ fireballs = <<>>
  /\ assets \in {LoadedAssets, SingleFrameAssets}
  /\ obs = ObsInit
  /\ keys_used = 0
  /\ sheet = NoSheet

SpecFrames ==
  InitFrames /\
    [][\/ update([OutOfReach EXCEPT !.hammer = {TRUE}, !.punch = {TRUE},
                                    !.fb_body = {TRUE}])
       \/ KeyDown({"SPACE", "Z", "X", "C", "SLASH", "PERIOD", "COMMA"}, MaxKeysFrames)
       \/ KeyUp({"C", "COMMA"}, MaxKeysFrames)]_vars

InRange(index, length) == 0 <= index /\ index < length

\* The stand animation's step.
Stand_next(animation_frame, length) == (animation_frame + 1) % length

\* The index Bowser's body frame is read at during the stream.
Bowser_stream_body_index(A) == Min(1, A.flameblast_release_frames - 1)

\* The frame set Mario's special_index reads.
Mario_special_frames(m, A) ==
  IF m.special_phase = "charge" THEN A.special_charge_frames
  ELSE A.special_release_frames

\* The indices that are in range in every phase.
Frames_common ==
  /\ \A length \in {MARIO_STAND_FRAMES, BOWSER_STAND_FRAMES} :
       \A animation_frame \in 0 .. length - 1 :
         InRange(Stand_next(animation_frame, length), length)
  /\ InRange(mario.attack_frame_index, assets.attack_frames)
  /\ InRange(bowser.attack_frame_index, assets.punch_frames)
  /\ mario.is_special => InRange(mario.special_index, Mario_special_frames(mario, assets))
  /\ InRange(mario.block_index, assets.mario_block_frames)
  /\ InRange(bowser.block_index, assets.bowser_block_frames)
  /\ InRange(mario.hit_anim_index, assets.mario_hit_frames)
  /\ InRange(bowser.hit_anim_index, assets.bowser_hit_frames)
  /\ \A k \in 1 .. Len(fireballs) : InRange(fireballs[k].index, assets.fireball_frames)
  /\ bowser.is_charging => InRange(bowser.flameblast_index, assets.flameblast_charge_frames)
  /\ bowser.is_flameblasting /\ bowser.flameblast_phase = "charge"
       => InRange(bowser.flameblast_index, assets.flameblast_charge_frames)
  /\ bowser.is_flameblasting /\ bowser.flameblast_phase = "release"
       => InRange(bowser.flameblast_index, assets.flameblast_release_frames)

MaxKeysProjectile == 3
CrossTicks == 134

InitProjectile ==
  \/ Init
  \/ /\ game_state = "playing"
     /\ mario = [MarioInit EXCEPT !.facing_right = FALSE]
     /\ bowser = [BowserInit EXCEPT !.x = BOWSER_SPAWN_X - WALK_SPEED * CrossTicks,
                                    !.facing_right = TRUE]
     /\ fireballs = <<>>
     /\ assets = LoadedAssets
     /\ obs = [ObsInit EXCEPT !.m_facing0 = FALSE, !.b_facing0 = TRUE]
     /\ keys_used = 0
     /\ sheet = NoSheet

SpecProjectile ==
  InitProjectile /\
    [][\/ update(OutOfReach)
       \/ KeyDown({"SPACE", "X"}, MaxKeysProjectile)]_vars

\* Whether the bounding box [left, left + width] of a fireball centred at x
\* lies entirely outside [-margin, WIDTH + margin].
Box_outside(x) ==
  \/ Fireball_left(x) + FireballWidth < -DESPAWN_MARGIN
  \/ Fireball_left(x) > WIDTH + DESPAWN_MARGIN

\* The fireballs of a list whose next move keeps their box on the stage.
Staying(fbs) ==
  SelectSeq(fbs, LAMBDA f : ~Box_outside(f.x + FIREBALL_SPEED * f.direction))

\* C14: in every update tick without a projectile collision each live
\* fireball moves by exactly FIREBALL_SPEED in its direction with y unchanged;
\* it leaves the list in the tick whose move takes its bounding box entirely
\* off the stage plus margin and in no earlier tick; every projectile in the
\* list is alive, with its box not entirely off the stage.
C14_ProjectileLifecycle ==
  [][keys_used' = keys_used /\ obs'.fired \cap {"fireball", "fireball_vs_stream"} = {} =>
       LET kept == Staying(fireballs)
       IN /\ Len(fireballs') \in {Len(kept), Len(kept) + 1}
          /\ \A k \in 1 .. Len(kept) :
               /\ fireballs'[k].x = kept[k].x + FIREBALL_SPEED * kept[k].direction
               /\ fireballs'[k].y = kept[k].y
               /\ fireballs'[k].direction = kept[k].direction
               /\ kept[k].direction \in {-1, 1}
          /\ Len(fireballs') = Len(kept) + 1 => mario'.special_has_fired
          /\ \A k \in 1 .. Len(fireballs') :
               /\ fireballs'[k].alive
               /\ ~Box_outside(fireballs'[k].x)]_vars

\* A fireball flies to the left and is on its last position before its box
\* leaves the stage.
C14_LeftwardAboutToLeave ==
  /\ Len(fireballs) = 1
  /\ fireballs[1].direction = -1
  /\ fireballs[1].moves > 1
  /\ Staying(fireballs) = <<>>

\* ceil((WIDTH + margin - 450) / speed): the ticks a fireball spawned at
\* Mario's opening x needs to bring its centre to the right margin.
ReachTicks ==
  (WIDTH + DESPAWN_MARGIN - MARIO_SPAWN_X + FIREBALL_SPEED - 1) \div FIREBALL_SPEED

\* C15: a fireball spawned at x = 450 flying right is removed from the list
\* in the tick, the 230th, in which its x reaches WIDTH + 50: no fireball in
\* the list has had that many moves.
C15_RemovedOnReachingMargin ==
  \A k \in 1 .. Len(fireballs) :
    fireballs[k].direction = 1 => fireballs[k].moves < ReachTicks

\* C15 as amended: after n update ticks the fireball is at 450 + 5 n, so
\* its x reaches WIDTH + 50 after exactly ReachTicks ticks; it is still in the
\* list then, and is removed in the tick whose move takes its whole bounding
\* box past WIDTH + 50, which comes later.
C15_RemovedWhenBoxLeaves ==
  [][keys_used' = keys_used =>
       \A k \in 1 .. Len(fireballs) :
         LET f == fireballs[k]
             stays == \E j \in 1 .. Len(fireballs') :
                         /\ fireballs'[j].direction = 1
                         /\ fireballs'[j].moves = f.moves + 1
         IN f.direction = 1 =>
              /\ f.x = MARIO_SPAWN_X + FIREBALL_SPEED * f.moves
              /\ (f.x >= WIDTH + DESPAWN_MARGIN) = (f.moves >= ReachTicks)
              /\ f.moves + 1 <= ReachTicks => stays
              /\ stays = ~Box_outside(f.x + FIREBALL_SPEED)]_vars

\* A fireball from x = 450 is past the margin with its centre, still in the
\* list, and on its last position before removal.
C15_PastMarginStillListed ==
  /\ Len(fireballs) = 1
  /\ fireballs[1].direction = 1
  /\ fireballs[1].moves > ReachTicks
  /\ fireballs[1].x > WIDTH + DESPAWN_MARGIN
  /\ Staying(fireballs) = <<>>

MaxKeysGuard == 3
SpecGuard ==
  Init /\
    [][\/ update([OutOfReach EXCEPT !.hammer = {TRUE}, !.fb_body = {TRUE}])
       \/ KeyDown({"SPACE", "Z", "X", "COMMA"}, MaxKeysGuard)
       \/ KeyUp({"COMMA"}, MaxKeysGuard)]_vars

MaxKeysDamage == 3

\* The state two key presses after the menu: SPACE, then PERIOD at once;
\* used is the part of the key budget taken as spent.
InitCharging(used) ==
  /\ game_state = "playing"
  /\ mario = MarioInit
  /\ bowser = Bowser_key_down(BowserInit, "PERIOD")
  /\ fireballs = <<>>
  /\ assets = LoadedAssets
  /\ obs = ObsKeyDown(ObsInit, MarioInit, BowserInit, "PERIOD")
  /\ keys_used = used
  /\ sheet = NoSheet

InitDamage == Init \/ InitCharging(MaxKeysDamage - 1)

SpecDamage ==
  InitDamage /\
    [][\/ update([OutOfReach EXCEPT !.hammer = {TRUE}, !.punch = {TRUE},
                                    !.flame = {TRUE}, !.fb_body = {TRUE}])
       \/ KeyDown({"SPACE", "Z", "X", "SLASH"}, MaxKeysDamage)]_vars

\* What the rules that fired in a tick take from Bowser, in eighths of a point.
Bowser_damage(fired) ==
  HP * ((IF "hammer_interrupt" \in fired THEN HAMMER_DAMAGE_DOUBLE
         ELSE IF "hammer" \in fired THEN HAMMER_DAMAGE ELSE 0)
        + (IF "fireball" \in fired THEN FIREBALL_DAMAGE ELSE 0))

\* What the rules that fired in a tick take from Mario, in eighths of a point.
Mario_damage(fired) ==
  HP * (IF "punch_interrupt" \in fired THEN PUNCH_DAMAGE_DOUBLE
        ELSE IF "punch" \in fired THEN PUNCH_DAMAGE ELSE 0)
  + (IF "flame" \in fired THEN FLAME_DAMAGE_EIGHTHS ELSE 0)

\* C18: no step increases a combatant's health; key events leave both
\* healths unchanged; an update tick takes from each combatant exactly the sum
\* of the amounts of the rules that fired in it (hammer 20 or 40 and fireball
\* 15 from Bowser, punch 15 or 30 and flame 7.5/60 from Mario), nothing when
\* no rule fired.
C18_HealthMonotone ==
  [][/\ mario'.health <= mario.health
     /\ bowser'.health <= bowser.health
     /\ keys_used' # keys_used =>
          mario'.health = mario.health /\ bowser'.health = bowser.health
     /\ keys_used' = keys_used =>
          /\ mario'.health = mario.health - Mario_damage(obs'.fired)
          /\ bowser'.health = bowser.health - Bowser_damage(obs'.fired)]_vars

\* A tick in which two rules fired on Mario: Bowser's punch, thrown during
\* the stream, and the flame.
C18_TwoRulesInOneTick ==
  /\ {"punch", "flame"} \subseteq obs.fired
  /\ mario.health < (INITIAL_HEALTH - PUNCH_DAMAGE) * HP

\* --------------------------------------------------------------- teardown
\* Bowser has begun to charge; the stream that follows runs out, is cancelled
\* by PERIOD, or is met by a fireball; a punch may have been thrown meanwhile.
MaxKeysTeardown == 3
SpecTeardown ==
  InitCharging(2) /\
    [][\/ update([OutOfReach EXCEPT !.fb_flame = {TRUE}])
       \/ KeyDown({"PERIOD", "X", "SLASH"}, MaxKeysTeardown)
       \/ KeyUp({"PERIOD"}, MaxKeysTeardown)]_vars

Bowser_streaming(b) == b.is_flameblasting /\ b.flameblast_phase = "stream"

\* C19: in the step that ends the stream, by timeout, by PERIOD or by a
\* fireball meeting the flame, Bowser's flameblast, charging, attacking,
\* blocking and hit flags all become false, the phase idle, and the
\* flameblast and attack indices and timers 0 (a timeout tick is taken with
\* no hammer or fireball hit on Bowser resolved after the teardown).
C19_TeardownResetsAll ==
  [][(/\ Bowser_streaming(bowser) /\ ~Bowser_streaming(bowser')
      /\ \/ keys_used' # keys_used
         \/ "fireball_vs_stream" \in obs'.fired
         \/ obs'.fired \cap {"hammer", "fireball"} = {}) =>
       /\ ~bowser'.is_flameblasting /\ ~bowser'.is_charging
       /\ ~bowser'.is_attacking /\ ~bowser'.is_blocking /\ ~bowser'.is_playing_hit
       /\ bowser'.flameblast_phase = "idle"
       /\ bowser'.flameblast_index = 0
       /\ bowser'.flameblast_timer = 0
       /\ bowser'.flameblast_stream_timer = 0
       /\ bowser'.flameblast_charge_timer = 0
       /\ bowser'.attack_frame_index = 0
       /\ bowser'.attack_timer = 0]_vars

\* The tick after which a fireball has met the flame and the stream is gone.
C19_StreamMetByFireball ==
  /\ "fireball_vs_stream" \in obs.fired
  /\ fireballs = <<>>
  /\ ~Bowser_streaming(bowser)
  /\ obs.stream_ticks = 0

C21_FireballEndsStream ==
  [][(keys_used' = keys_used /\ "fireball_vs_stream" \in obs'.fired) =>
       LET spawned == IF obs'.sp_spawned > obs.sp_spawned THEN 1 ELSE 0
       IN /\ Len(fireballs) + spawned >= 1
          /\ Len(fireballs') <= Len(fireballs) + spawned - 1
          /\ bowser.flameblast_stream_timer < flameblast_stream_duration
          /\ ~bowser'.is_flameblasting
          /\ bowser'.flameblast_phase = "idle"
          /\ bowser'.flameblast_stream_timer = 0]_vars

\* The tick after which the one fireball Mario fired into the running stream
\* is gone and Bowser is idle again.
C21_StreamParried ==
  /\ "fireball_vs_stream" \in obs.fired
  /\ obs.sp_spawned = 1
  /\ fireballs = <<>>
  /\ ~bowser.is_flameblasting
  /\ bowser.flameblast_phase = "idle"

\* ------------------------------------------------------------------ flame
\* Bowser has begun to charge and Mario stands where the flame will reach him;
\* Mario raises his block at some tick.
MaxKeysFlame == 3
SpecFlame ==
  InitCharging(2) /\
    [][\/ update([OutOfReach EXCEPT !.flame = {TRUE}])
       \/ KeyDown({"C"}, MaxKeysFlame)
       \/ KeyUp({"C"}, MaxKeysFlame)]_vars

\* C22: with Mario in the flame's reach, an update tick takes health from him
\* exactly when, at resolution, Bowser is in the stream phase and Mario is not
\* blocking; it then takes exactly 7.5/60 of a point, and a tick in the
\* charging, charge or release phase, or with Mario blocking, takes none.
C22_FlameDamagePerTick ==
  [][keys_used' = keys_used =>
       /\ ("flame" \in obs'.fired) = (Bowser_streaming(bowser') /\ ~mario'.is_blocking)
       /\ mario'.health =
            mario.health - (IF "flame" \in obs'.fired THEN FLAME_DAMAGE_EIGHTHS ELSE 0)
       /\ FLAME_DAMAGE_EIGHTHS * 60 * 2 = 15 * HP]_vars

\* Mario, burnt by the stream's earlier ticks, now blocks inside it and this
\* tick has taken nothing from him.
C22_BlockedAfterBurning ==
  /\ Bowser_streaming(bowser)
  /\ mario.is_blocking
  /\ "flame" \notin obs.fired
  /\ obs.stream_ticks > 1
  /\ mario.health < INITIAL_HEALTH * HP
  /\ mario.health > INITIAL_HEALTH * HP - obs.stream_ticks * FLAME_DAMAGE_EIGHTHS

\* ----------------------------------------------------------- empty frames
\* The attack, special and punch sheets loaded, or failed to load and left
\* their frame sets empty.
MaxKeysEmpty == 3

EmptyAssets ==
  [LoadedAssets EXCEPT !.attack_frames = 0,
                       !.special_charge_frames = 0,
                       !.special_release_frames = 0,
                       !.punch_frames = 0]

InitEmpty ==
  /\ game_state = "menu"
  /\ mario = MarioInit
  /\ bowser = BowserInit
  /\ fireballs = <<>>
  /\ assets \in {LoadedAssets, EmptyAssets}
  /\ obs = ObsInit
  /\ keys_used = 0
  /\ sheet = NoSheet

SpecEmpty ==
  InitEmpty /\
    [][\/ update(OutOfReach)
       \/ KeyDown({"SPACE", "Z", "X", "SLASH"}, MaxKeysEmpty)]_vars

\* C23: with an empty frame set the phase's timers and transitions still
\* advance: an update tick that finds a combatant attacking over an empty
\* attack set, or Mario in his special over empty special sets (and no
\* higher-priority animation running), moves that phase's timer or ends the
\* phase, so the phase ends after finitely many ticks.
C23_EmptyFramesStillAdvance ==
  [][keys_used' = keys_used =>
       /\ (assets.attack_frames = 0 /\ mario.is_attacking /\ ~mario.is_blocking) =>
            (mario'.attack_timer # mario.attack_timer \/ ~mario'.is_attacking)
       /\ (/\ assets.special_charge_frames = 0 /\ assets.special_release_frames = 0
           /\ mario.is_special /\ ~mario.is_blocking /\ ~mario.is_attacking) =>
            \/ mario'.special_timer # mario.special_timer
            \/ mario'.special_charge_timer # mario.special_charge_timer
            \/ ~mario'.is_special
       /\ (assets.punch_frames = 0 /\ bowser.is_attacking /\ ~bowser.is_blocking
           /\ ~bowser.is_playing_hit /\ ~bowser.is_charging /\ ~bowser.is_flameblasting) =>
            (bowser'.attack_timer # bowser.attack_timer \/ ~bowser'.is_attacking)]_vars

\* C24: a tick that resolves a melee or projectile hit leaves the defender in
\* hitstun, with a positive hitstun timer, and the hit-linger countdown does
\* not run while he is in hitstun.
C24_HitAppliesHitstun ==
  [][keys_used' = keys_used =>
       /\ obs'.fired \cap {"hammer", "fireball"} # {} =>
            bowser'.is_in_hitstun /\ bowser'.hitstun_timer > 0
       /\ "punch" \in obs'.fired =>
            mario'.is_in_hitstun /\ mario'.hitstun_timer > 0
       /\ mario.is_in_hitstun => mario'.hit_linger_timer >= mario.hit_linger_timer
       /\ bowser.is_in_hitstun => bowser'.hit_linger_timer >= bowser.hit_linger_timer]_vars

\* ------------------------------------------------------------------ block
\* Either combatant attacks and blocks; the punch connects, the hammer may.
MaxKeysBlock == 3
SpecBlock ==
  Init /\
    [][\/ update([OutOfReach EXCEPT !.punch = {TRUE}, !.hammer = BOOLEAN])
       \/ KeyDown({"SPACE", "Z", "C", "SLASH", "COMMA"}, MaxKeysBlock)]_vars

\* C25: a tick through which a combatant is blocking never applies that
\* combatant's melee attack to the opponent: no hammer hit while Mario blocks,
\* no punch hit while Bowser blocks.
C25_BlockSuppressesAttack ==
  [][keys_used' = keys_used =>
       /\ (mario.is_blocking /\ mario'.is_blocking) => "hammer" \notin obs'.fired
       /\ (bowser.is_blocking /\ bowser'.is_blocking) => "punch" \notin obs'.fired]_vars

\* C26: a key press that finds a combatant blocking or in a higher-priority
\* phase (hit animation, Mario's special, Bowser's charging or flameblast)
\* starts no attack and restarts none: if he is attacking after the key, he
\* was before, with frame index, timer and has-hit flag as they were.
C26_AttackEntryGuard ==
  [][keys_used' # keys_used =>
       /\ (mario.is_blocking \/ mario.is_playing_hit \/ mario.is_special) =>
            (mario'.is_attacking =>
               /\ mario.is_attacking
               /\ mario'.attack_frame_index = mario.attack_frame_index
               /\ mario'.attack_timer = mario.attack_timer
               /\ mario'.attack_has_hit = mario.attack_has_hit)
       /\ (\/ bowser.is_blocking \/ bowser.is_playing_hit
           \/ bowser.is_charging \/ bowser.is_flameblasting) =>
            (bowser'.is_attacking =>
               /\ bowser.is_attacking
               /\ bowser'.attack_frame_index = bowser.attack_frame_index
               /\ bowser'.attack_timer = bowser.attack_timer
               /\ bowser'.attack_has_hit = bowser.attack_has_hit)]_vars

\* C27: with at least three charge frames, once the tail loop of Mario's
\* charge has begun, special_index cycles through the last three indices
\* L-3, L-2, L-1 in turn: whenever it changes within the loop it goes one up,
\* and from L-1 back to L-3.
C27_TailLoopLastThree ==
  [][(/\ keys_used' = keys_used
      /\ assets.special_charge_frames >= 3
      /\ mario.is_special /\ mario.special_phase = "charge"
      /\ mario'.is_special /\ mario'.special_phase = "charge"
      /\ mario.special_charge_tail_loop /\ mario'.special_charge_tail_loop
      /\ mario'.special_index # mario.special_index) =>
       /\ mario.special_index \in (assets.special_charge_frames - 3) ..
                                  (assets.special_charge_frames - 1)
       /\ mario'.special_index =
            IF mario.special_index = assets.special_charge_frames - 1
            THEN assets.special_charge_frames - 3
            ELSE mario.special_index + 1]_vars

\* The shortest linger any hit rule passes to start_hitstun_anim.
MinHitLinger == 30

\* C28: the hit animation plays once and holds, for Mario and for Bowser: a
\* combatant that has been in PlayingHit, never blocking, for hit_anim_speed
\* ticks or more since its last hit (its linger timer has run down by that
\* much from the shortest linger a hit gives) has left index 0 of a hit
\* FrameSet of two frames or more.
C28_HitPoseAdvances ==
  /\ (mario.is_playing_hit /\ assets.mario_hit_frames > 1
        /\ mario.hit_linger_timer <= MinHitLinger - hit_anim_speed)
     => mario.hit_anim_index >= 1
  /\ (bowser.is_playing_hit /\ assets.bowser_hit_frames > 1
        /\ bowser.hit_linger_timer <= MinHitLinger - hit_anim_speed)
     => bowser.hit_anim_index >= 1

\* ------------------------------------------------------------------- jump
\* Either combatant jumps while Mario may swing his hammer; nothing is in reach.
MaxKeysJump == 3
SpecJump ==
  Init /\
    [][\/ update(OutOfReach)
       \/ KeyDown({"SPACE", "W", "UP", "Z"}, MaxKeysJump)]_vars

\* C29: gravity always accrues while airborne: a tick that a combatant starts
\* and ends airborne adds GRAVITY (0.6) to its velocity_y, in every phase,
\* attacking included; and a combatant whose lower edge is on the floor line
\* at the end of a tick has velocity_y 0 and is on_ground.
C29_GravityAccrues ==
  [][keys_used' = keys_used =>
       /\ (~mario.on_ground /\ ~mario'.on_ground)
            => mario'.velocity_y = mario.velocity_y + GRAVITY_TENTHS
       /\ (~bowser.on_ground /\ ~bowser'.on_ground)
            => bowser'.velocity_y = bowser.velocity_y + GRAVITY_TENTHS
       /\ mario'.y + (MARIO_HEIGHT * PX) \div 2 >= (FLOOR_Y + MARIO_FLOOR_OFFSET) * PX
            => (mario'.velocity_y = 0 /\ mario'.on_ground)
       /\ bowser'.y + (BOWSER_HEIGHT * PX) \div 2 >= (FLOOR_Y + BOWSER_FLOOR_OFFSET) * PX
            => (bowser'.velocity_y = 0 /\ bowser'.on_ground)]_vars

\* ---------------------------------------------------------------- release
\* Bowser has pressed PERIOD and holds it; the only key events are releases of
\* PERIOD, during the pre-charge, the charge, the release or the stream.
MaxKeysRelease == 2
SpecRelease ==
  InitCharging(0) /\
    [][\/ update(OutOfReach)
       \/ KeyUp({"PERIOD"}, MaxKeysRelease)]_vars

\* C30: once Bowser is in the stream phase the flameblast ends only by the
\* stream timeout, a repeated PERIOD key-down or a projectile collision; in
\* particular no key-up event ends it: a key event of SpecRelease, all of
\* which are key-ups, leaves a streaming Bowser streaming.
C30_KeyUpKeepsStream ==
  [][(keys_used' # keys_used /\ Bowser_streaming(bowser))
       => Bowser_streaming(bowser')]_vars

\* ------------------------------------------------------------ heavy attack
\* Bowser starts, blocks, cancels and releases his heavy attack inside the
\* hammer's arc while Mario may swing.
MaxKeysHeavy == 3
SpecHeavy ==
  Init /\
    [][\/ update([OutOfReach EXCEPT !.hammer = {TRUE}])
       \/ KeyDown({"SPACE", "PERIOD", "COMMA", "Z"}, MaxKeysHeavy)
       \/ KeyUp({"COMMA", "PERIOD"}, MaxKeysHeavy)]_vars

\* The phase of Bowser's heavy attack: the pre-charge while is_charging, else
\* flameblast_phase while is_flameblasting, else idle.
Bowser_heavy_phase(b) ==
  IF b.is_charging THEN "precharge"
  ELSE IF b.is_flameblasting THEN b.flameblast_phase
  ELSE "idle"

\* C31: Bowser's heavy attack only ever moves pre-charge -> charge -> release
\* -> stream -> idle: every step either keeps the phase or takes the next one
\* of that cycle, so no phase is skipped or revisited within one activation
\* and the stream is entered from release only; and the pre-charge is entered
\* only from a Bowser who is not charging, not flameblasting and not blocking.
C31_PhaseOrder ==
  [][/\ \/ Bowser_heavy_phase(bowser') = Bowser_heavy_phase(bowser)
        \/ <<Bowser_heavy_phase(bowser), Bowser_heavy_phase(bowser')>> \in
             {<<"idle", "precharge">>, <<"precharge", "charge">>,
              <<"charge", "release">>, <<"release", "stream">>,
              <<"stream", "idle">>}
     /\ (Bowser_heavy_phase(bowser) # "precharge"
           /\ Bowser_heavy_phase(bowser') = "precharge")
        => (~bowser.is_charging /\ ~bowser.is_flameblasting /\ ~bowser.is_blocking)]_vars

\* The heavy attack has run through every phase and its stream is one step
\* from its timeout.
C31_StreamAboutToEnd ==
  /\ Bowser_heavy_phase(bowser) = "stream"
  /\ bowser.flameblast_stream_timer = flameblast_stream_duration - 1

\* ---------------------------------------------------------------- linger
\* C32: a hit sets the linger to d (30 base, 60 interrupt, 45 flame); from
\* then on every tick that resolves no further hit on the combatant and tears
\* down no flameblast counts the linger down by one while it is positive,
\* keeping is_playing_hit, and clears is_playing_hit once it is 0: PlayingHit
\* lasts the next d ticks and ends during the (d+1)-th.
C32_LingerCountsDown ==
  [][keys_used' = keys_used =>
       LET f == obs'.fired
       IN /\ ("flame" \in f /\ assets.mario_hit_frames > 0)
               => (mario'.is_playing_hit /\ mario'.hit_linger_timer = FLAME_LINGER)
          /\ ("punch" \in f /\ "flame" \notin f /\ assets.mario_hit_frames > 0)
               => /\ mario'.is_playing_hit
                  /\ mario'.hit_linger_timer =
                       IF "punch_interrupt" \in f THEN PUNCH_LINGER_DOUBLE
                       ELSE PUNCH_LINGER
          /\ (mario.is_playing_hit /\ f \cap {"punch", "flame"} = {})
               => IF mario.hit_linger_timer > 0
                  THEN /\ mario'.is_playing_hit
                       /\ mario'.hit_linger_timer = mario.hit_linger_timer - 1
                  ELSE ~mario'.is_playing_hit
          /\ (f \cap {"hammer", "fireball"} # {} /\ "fireball_vs_stream" \notin f
                /\ assets.bowser_hit_frames > 0)
               => /\ bowser'.is_playing_hit
                  /\ bowser'.hit_linger_timer \in
                       {HAMMER_LINGER, HAMMER_LINGER_DOUBLE, FIREBALL_LINGER}
          /\ (bowser.is_playing_hit /\ f \cap {"hammer", "fireball"} = {}
                /\ ~(Bowser_streaming(bowser) /\ ~Bowser_streaming(bowser')))
               => IF bowser.hit_linger_timer > 0
                  THEN /\ bowser'.is_playing_hit
                       /\ bowser'.hit_linger_timer = bowser.hit_linger_timer - 1
                  ELSE ~bowser'.is_playing_hit]_vars

\* Both combatants were hit; Mario's linger has run out and the next tick
\* ends his PlayingHit while Bowser's is still counting.
C32_LingerRunOut ==
  /\ mario.is_playing_hit /\ mario.hit_linger_timer = 0
  /\ bowser.is_playing_hit /\ bowser.hit_linger_timer > 0

\* ---------------------------------------------------------- active window
\* C33: the hammer takes health from Bowser only in a tick that ends with
\* Mario attacking on a frame of the back half of the swing,
\* attack_frame_index >= floor(len(attack_frames) / 2); a tick that ends on an
\* earlier frame of the swing resolves no hammer hit, leaves Bowser's health
\* as it was and does not mark the swing as having hit, even though the
\* hammer overlaps Bowser.
C33_HammerActiveWindow ==
  [][keys_used' = keys_used =>
       /\ ("hammer" \in obs'.fired \/ bowser'.health < bowser.health)
            => /\ mario'.is_attacking
               /\ mario'.attack_frame_index >= assets.attack_frames \div 2
       /\ (mario'.is_attacking
             /\ mario'.attack_frame_index < assets.attack_frames \div 2)
            => /\ "hammer" \notin obs'.fired
               /\ bowser'.health = bowser.health
               /\ ~mario'.attack_has_hit]_vars

\* The hammer has just hit on the first frame of the back half of the swing.
C33_HitOnFirstActiveFrame ==
  /\ "hammer" \in obs.fired
  /\ mario.attack_frame_index = assets.attack_frames \div 2
  /\ mario.attack_frame_index > 0
  /\ bowser.health = (INITIAL_HEALTH - HAMMER_DAMAGE) * HP

\* ------------------------------------------------------------------ cross
\* Bowser walks left and Mario right, up to and past each other; nothing is
\* in reach.
MaxKeysCross == 3
SpecCross ==
  Init /\
    [][\/ update(OutOfReach)
       \/ KeyDown({"SPACE", "LEFT", "D"}, MaxKeysCross)]_vars

\* C34: at the end of every update tick each combatant faces the opponent's
\* current x: mario.facing_right = (bowser.x >= mario.x) and
\* bowser.facing_right = (mario.x >= bowser.x), both on the positions at the
\* end of that same tick.
C34_FacingTracksOpponent ==
  [][keys_used' = keys_used =>
       /\ mario'.facing_right = (bowser'.x >= mario'.x)
       /\ bowser'.facing_right = (mario'.x >= bowser'.x)]_vars

\* ----------------------------------------------------------------- sheets
\* A sheet of at most W by H cells is loaded, any cells but <<0, 0>> differing
\* from the background; the game is still in its menu.
InitSheet(W, H) ==
  /\ game_state = "menu"
  /\ mario = MarioInit
  /\ bowser = BowserInit
  /\ fireballs = <<>>
  /\ assets = LoadedAssets
  /\ obs = ObsInit
  /\ keys_used = 0
  /\ \E w \in 1..W, h \in 1..H :
       \E px \in SUBSET (((0..(w - 1)) \X (0..(h - 1))) \ {<<0, 0>>}) :
         sheet = [w |-> w, h |-> h, px |-> px, frames |-> <<>>, sliced |-> FALSE]

\* Sheets for the slicer with the connected-component pass.
TightSheetW == 3
TightSheetH == 4
SpecTight == InitSheet(TightSheetW, TightSheetH) /\ [][slice_sheet_tight]_vars

\* The 4-connected components of a set of cells.
Components(px) == {Flood(px, {c}) : c \in px}

\* C35: for every cropped region, the frame the connected-component pass
\* emits holds the opaque cells of one largest 4-connected component of the
\* region, moved to the frame's origin, and no cell of any other component.
C35_LargestClusterOnly ==
  sheet.sliced =>
    LET rects == Tight_rects(sheet)
    IN \A k \in 1..Len(rects) :
         LET comps == Components(Frame_of(sheet, rects[k]).px)
         IN \E C \in comps :
              /\ \A D \in comps : Cardinality(D) <= Cardinality(C)
              /\ sheet.frames[k].px =
                   Blit(C, Bounds_of(C).minx, Bounds_of(C).miny,
                        sheet.frames[k].w, sheet.frames[k].h)

\* Sheets for the column-run slicer.
SheetW == 3
SheetH == 3
SpecSlice == InitSheet(SheetW, SheetH) /\ [][slice_sheet]_vars

\* C36: the slicer emits exactly one frame per maximal run of consecutive
\* columns that hold a non-background cell, in left-to-right order; frame k is
\* as wide as run k and spans exactly the rows from the first to the last
\* non-background row of that run's columns; a uniform sheet yields
\* max(1, width div height) square slices, so the result is never empty.
C36_ColumnRunSlicing ==
  sheet.sliced =>
    LET col(x) == \E y \in 0..(sheet.h - 1) : <<x, y>> \in sheet.px
        runs == {r \in (0..(sheet.w - 1)) \X (0..(sheet.w - 1)) :
                   /\ r[1] <= r[2]
                   /\ \A x \in r[1]..r[2] : col(x)
                   /\ r[1] = 0 \/ ~col(r[1] - 1)
                   /\ r[2] = sheet.w - 1 \/ ~col(r[2] + 1)}
    IN /\ Len(sheet.frames) > 0
       /\ sheet.px = {} =>
            /\ Len(sheet.frames) = Max(1, sheet.w \div sheet.h)
            /\ \A k \in 1..Len(sheet.frames) :
                 sheet.frames[k] = [w |-> sheet.h, h |-> sheet.h, px |-> {}]
       /\ sheet.px # {} =>
            /\ Len(sheet.frames) = Cardinality(runs)
            /\ \A k \in 1..Len(sheet.frames) :
                 \E r \in runs :
                   /\ Cardinality({q \in runs : q[1] < r[1]}) = k - 1
                   /\ LET cells == {d \in sheet.px : d[1] >= r[1] /\ d[1] <= r[2]}
                          top == CHOOSE y \in {d[2] : d \in cells} :
                                   \A d \in cells : y <= d[2]
                          bottom == CHOOSE y \in {d[2] : d \in cells} :
                                      \A d \in cells : y >= d[2]
                      IN sheet.frames[k] =
                           [w |-> r[2] - r[1] + 1,
                            h |-> bottom - top + 1,
                            px |-> {<<d[1] - r[1], d[2] - top>> : d \in cells}]

\* A sheet sliced into two frames of different heights, the second run ending
\* at the sheet's last column.
C36_TwoRunsTwoHeights ==
  /\ sheet.sliced
  /\ Len(sheet.frames) = 2
  /\ sheet.frames[1].h # sheet.frames[2].h
  /\ \E y \in 0..(sheet.h - 1) : <<sheet.w - 1, y>> \in sheet.px

\* C37: Bowser's is_charging and is_flameblasting are never both true, and
\* is_flameblasting is true exactly when flameblast_phase is not 'idle'.
C37_HeavyFlagsConsistent ==
  /\ ~(bowser.is_charging /\ bowser.is_flameblasting)
  /\ bowser.is_flameblasting <=> (bowser.flameblast_phase # "idle")

\* The pre-charge has just turned into the flameblast's charge phase.
C37_ChargeJustBegun ==
  /\ bowser.is_flameblasting /\ ~bowser.is_charging
  /\ bowser.flameblast_phase = "charge"
  /\ bowser.flameblast_index = 0 /\ bowser.flameblast_timer = 0

\* C38: Bowser is never blocking while his heavy attack is in progress:
\* is_blocking and (is_charging or is_flameblasting) are never both true,
\* whatever the order of COMMA and PERIOD key events, hits and ticks.
C38_NoBlockDuringHeavy ==
  ~(bowser.is_blocking /\ (bowser.is_charging \/ bowser.is_flameblasting))

\* Bowser blocks, untouched by the hammer, after the last key event of the
\* run, which his block did not accept: no charge has started.
C38_BlockHeldThroughKeys ==
  /\ bowser.is_blocking /\ bowser.block_index > 0
  /\ keys_used = MaxKeysHeavy
  /\ ~mario.is_attacking
  /\ bowser.health = INITIAL_HEALTH * HP

\* ----------------------------------------------------------------- shield
\* The match has begun and either combatant may already hold his block (SPACE,
\* then C or COMMA or both); either of them then blocks, attacks or fires, and
\* punch, hammer and fireball all reach their target.
MaxKeysShield == 1
InitShield ==
  \E mario_blocks \in BOOLEAN, bowser_blocks \in BOOLEAN :
    /\ game_state = "playing"
    /\ mario = IF mario_blocks THEN Mario_key_down(MarioInit, "C") ELSE MarioInit
    /\ bowser = IF bowser_blocks THEN Bowser_key_down(BowserInit, "COMMA")
                ELSE BowserInit
    /\ fireballs = <<>>
    /\ assets = LoadedAssets
    /\ obs = ObsKeyDown(ObsInit, MarioInit, BowserInit, "SPACE")
    /\ keys_used = 0
    /\ sheet = NoSheet

SpecShield ==
  InitShield /\
    [][\/ update([OutOfReach EXCEPT !.punch = {TRUE}, !.hammer = {TRUE},
                                    !.fb_body = {TRUE}])
       \/ KeyDown({"C", "COMMA", "SLASH", "Z", "X"}, MaxKeysShield)]_vars

\* C39: blocking gives no protection against melee or projectile hits: a
\* resolved punch takes 15 (30 mid-charge) from Mario whether or not he is
\* blocking and leaves his is_blocking as it was; a resolved hammer takes 20
\* (40 on an interrupt) and a resolved fireball 15 from Bowser whether or not
\* he is blocking.
C39_BlockDoesNotProtect ==
  [][keys_used' = keys_used =>
       LET f == obs'.fired
       IN /\ ("punch" \in f /\ "flame" \notin f)
               => /\ mario'.health = mario.health -
                       (IF "punch_interrupt" \in f THEN PUNCH_DAMAGE_DOUBLE
                        ELSE PUNCH_DAMAGE) * HP
                  /\ mario'.is_blocking = mario.is_blocking
          /\ bowser'.health = bowser.health
               - (IF "hammer_interrupt" \in f THEN HAMMER_DAMAGE_DOUBLE * HP
                  ELSE IF "hammer" \in f THEN HAMMER_DAMAGE * HP ELSE 0)
               - (IF "fireball" \in f THEN FIREBALL_DAMAGE * HP ELSE 0)]_vars

\* A punch has just hit a blocking Mario, who is still blocking and has lost
\* the full 15.
C39_PunchThroughBlock ==
  /\ "punch" \in obs.fired
  /\ mario.is_blocking
  /\ mario.health = (INITIAL_HEALTH - PUNCH_DAMAGE) * HP

\* ------------------------------------------------------------------ match
\* Bowser stands inside the hammer's arc; Mario swings again and again, from
\* the menu on, and keys are released in the menu and during the match.
MaxKeysMatch == 27
SpecMatch ==
  Init /\
    [][\/ update([OutOfReach EXCEPT !.hammer = {TRUE}])
       \/ KeyDown({"SPACE", "Z"}, MaxKeysMatch)
       \/ KeyUp({"C"}, MaxKeysMatch)]_vars

====
